---- MODULE Spec2Model ----
(***************************************************************************)
(* LazyMailBOSS: the email processing pipeline.                            *)
(*                                                                         *)
(* EmailMonitorImpl (src/EmailMonitor.ts) polls the mailbox and drives     *)
(* each unread email through the filter, AutoResponderImpl                 *)
(* (src/src/responder/AutoResponder.ts) and the ReadTracker.  The          *)
(* management API calls AutoResponderImpl.processConfirmation on its own   *)
(* request path, concurrently with a poll cycle.  Every `await` of I/O    *)
(* (SMTP, IMAP, the database) is a scheduling point of the event loop: the *)
(* code between two such awaits is one atomic action.                      *)
(*                                                                         *)
(* ConfigurationManagerImpl (src/unnamed/part_004) validates, merges,      *)
(* persists and caches the configuration and notifies its listeners; the   *)
(* application subscribes one listener that reloads the MessageFilter.     *)
(***************************************************************************)
EXTENDS Integers, Sequences, FiniteSets, Bags

\* ------------------------------------------------------------------ bounds
NumEmails == 2     \* emails in the mailbox
MaxReplies == 2    \* replies generateReply may create in one behaviour
MaxCycles == 2     \* poll cycles pollInbox may begin in one behaviour
NumProcs == 2      \* API requests that may be inside processConfirmation
MaxMarkFailures == 1 \* markAsRead calls the mailbox may fail in one behaviour
MaxOnLogThrows == 2  \* consecutive calls of the monitor's onLog that may throw
MaxMonitorCycles == 6 \* poll cycles in one behaviour of the monitor taken alone
NumWords == 2      \* distinct lower-case strings a keyword or a domain may be
NumCallers == 2    \* updateConfig calls that may be in flight together
MaxUpdateCalls == 2 \* updateConfig calls in one behaviour
MaxListeners == 2  \* listeners a test may subscribe
MaxAddress == 3    \* characters of a sender address
MaxText == 1       \* characters of a subject and of a body
MaxKeyword == 3    \* characters of a keyword
MaxDomain == 1     \* characters of an excluded-domains entry
MaxEntries == 1    \* entries of a keyword list and of an excluded-domains list
MaxTemplate == 2   \* characters and placeholders of a reply template
MaxFrom == 2       \* characters of the sender of an email handed to generateReply

Emails == 1..NumEmails
ReplyIds == 1..MaxReplies
Procs == 1..NumProcs

\* EmailMonitorImpl.MAX_CONSECUTIVE_FAILURES
MAX_CONSECUTIVE_FAILURES == 5

\* The sender address of email e (Email.from); an address is not an id.
From(e) == <<"from", e>>

\* ------------------------------------------------------------- JS values
\* A value of the configuration JSON is a pair <<tag, payload>>.  A number
\* carries its value, a string its identity (0 is the empty string), an array
\* the set of its items; Undefined stands for a property that is absent.
Undefined == <<"undefined", 0>>
Num(n) == <<"number", n>>
Str(k) == <<"string", k>>
Bool(b) == <<"boolean", IF b THEN 1 ELSE 0>>
Arr(S) == <<"array", S>>

\* typeof v
TypeOf(v) == IF v[1] = "array" THEN "object" ELSE v[1]
\* Array.isArray(v)
IsArray(v) == v[1] = "array"
\* v in a condition: 0, "" , false and undefined are falsy
Truthy(v) ==
  CASE v[1] = "number" -> v[2] # 0
    [] v[1] = "string" -> v[2] # 0
    [] v[1] = "boolean" -> v[2] = 1
    [] v[1] = "array" -> TRUE
    [] OTHER -> FALSE

\* Strings that serve as keywords and domains: 1..NumWords are lower-case,
\* w + NumWords is the same word written in upper case.
Words == 1..(2 * NumWords)
toLowerCase(w) == IF w > NumWords THEN w - NumWords ELSE w

\* The mailbox: email e is sent from an address of the domain e (written in
\* upper case when e is even) and only email 1 mentions a word, word 1.
SenderDomain(e) == IF e % 2 = 0 /\ e <= NumWords THEN e + NumWords ELSE e
SearchText(e) == IF e = 1 THEN {1} ELSE {}

VARIABLES
  manualConfirmation,  \* AutoResponderConfig.manualConfirmation
  messageFilter,       \* MessageFilter: keywordsEnabled and the two lower-cased lists
  seen,                \* per email: the mailbox's \Seen flag
  markCalls,           \* per email: invocations of ReadTracker.markAsRead
  markFailures,        \* markAsRead calls that have failed so far
  replies,             \* the Reply objects created so far; a reply's id is its index
  pendingReplies,      \* AutoResponderImpl.pendingReplies: the keys of the Map
  smtp,                \* per reply id: transporter.sendMail invoked / delivered / failed
  clock,               \* the time `new Date()` reads in sendReply
  logs,                \* the ActivityLog entries handed to onLog: a bag of entries
  conf,                \* per API request: its position inside processConfirmation
  approveFound,        \* reply ids some processConfirmation(id, true) has found
  rejectFound,         \* reply ids some processConfirmation(id, false) has found
  rejectReturned,      \* reply ids some processConfirmation(id, false) has returned for
  isRunning,           \* EmailMonitorImpl.isRunning
  isProcessing,        \* EmailMonitorImpl.isProcessing
  shouldStop,          \* EmailMonitorImpl.shouldStop
  intervalId,          \* EmailMonitorImpl.intervalId: TRUE when the timer is armed
  consecutiveFailures, \* EmailMonitorImpl.consecutiveFailures
  poll,                \* the position of the pollInbox call in flight, if any
  stopPc,              \* the position of a stop() call
  cycles,              \* poll cycles begun so far
  startPc,             \* the position of a start() call that found the monitor running
  tickSkipped,         \* some timer tick has returned at pollInbox's guard
  abandoned,           \* emails the for loop left when it broke after a processEmail
  currentConfig,       \* ConfigurationManagerImpl.currentConfig: <<>> is null
  dbRow,               \* the row of the config table: <<>> when there is none
  listeners,           \* ConfigurationManagerImpl.listeners, in subscription order
  notified,            \* the listener invocations made so far, in order
  upd,                 \* per caller: its position inside updateConfig
  updCalls,            \* updateConfig calls made so far
  probe,               \* the email and FilterConfig a MessageFilter is tried on
  decision,            \* the FilterDecision shouldAutoReply returned for probe
  given,               \* the email and AutoResponderConfig generateReply is tried on
  returned,            \* the Reply generateReply returned for given
  onLogThrows,         \* the next calls of EmailMonitorConfig.onLog that throw
  raised,              \* per email: processEmail calls whose catch block ran
  failedChecks,        \* checkInbox calls that rejected since one resolved or start()
  rows,                \* per reply id: the status in its row of the reply table
  saving               \* replies whose onReplySave from generateReply is in flight

vars == <<manualConfirmation, messageFilter, seen, markCalls, markFailures, replies,
          pendingReplies, smtp, clock, logs, conf, approveFound,
          rejectFound, rejectReturned, isRunning, isProcessing, shouldStop, intervalId,
          consecutiveFailures, poll, stopPc, cycles, startPc, tickSkipped,
          abandoned, currentConfig, dbRow, listeners, notified, upd, updCalls,
          probe, decision, given, returned, onLogThrows, raised,
          failedChecks, rows, saving>>

responderVars == <<replies, pendingReplies, smtp, clock>>
\* What only the monitor's own calls and guards touch.
guardVars == <<startPc, tickSkipped>>
monitorVars == <<isRunning, isProcessing, shouldStop, intervalId,
                 consecutiveFailures, poll, stopPc, cycles, guardVars, abandoned>>
historyVars == <<approveFound, rejectFound, rejectReturned>>
managerVars == <<currentConfig, dbRow, listeners, notified, upd, updCalls>>
probeVars == <<probe, decision, given, returned>>
configVars == <<manualConfirmation, messageFilter, managerVars, probeVars>>
mailboxVars == <<seen, markCalls, markFailures>>
\* The monitor's log sink, and what has been raised inside a poll cycle.
sinkVars == <<onLogThrows, raised, failedChecks>>
\* The reply table behind onReplySave and the API's views.
repoVars == <<rows, saving>>

\* ------------------------------------------------------------ AutoResponder

\* sentAt is sendReply's local `const sentAt`, live until the reply_sent log.
IdleConf == [pc |-> "idle", replyId |-> 0, approved |-> FALSE, sentAt |-> 0]
IdlePoll == [pc |-> "idle", batch |-> <<>>, email |-> 0, reply |-> 0, sentAt |-> 0]

\* Faulty variants of GenerateStatus: the mode is ignored.
GenerateStatusAlwaysApproved(manual) == "approved"
GenerateStatusAlwaysPending(manual) == "pending"

\* generateReply: status is 'pending' under manual confirmation, else 'approved'.
GenerateStatus(manual) == IF manual THEN "pending" ELSE "approved"

\* generateReply(email); id stands for the fresh randomUUID().
generateReply(e, id) ==
  [id |-> id,
   originalEmailId |-> e,
   to |-> From(e),
   status |-> GenerateStatus(manualConfirmation),
   sentAt |-> 0]

\* Faulty variant of PendingGet: looks the id up among all replies ever created.
PendingGetAnyReply(replyId) == IF replyId \in 1..Len(replies) THEN replyId ELSE 0

\* The reply object the pending Map holds for replyId, or 0 (undefined).
PendingGet(replyId) == IF replyId \in pendingReplies THEN replyId ELSE 0

SetStatus(rs, r, s) == [rs EXCEPT ![r].status = s]

\* Faulty variant of ConfirmationStatus: a rejection leaves the status alone.
ConfirmationStatusKeepsPending(approved) == IF approved THEN "approved" ELSE "pending"

\* processConfirmation's branch on `approved`: the status it assigns.
ConfirmationStatus(approved) == IF approved THEN "approved" ELSE "rejected"

\* onLog(entry): the entry is handed to the log sink.
Emit(sink, entry) == sink (+) SetToBag({entry})

\* ActivityLog entries (id is a random UUID and is left out).
SentLog(reply, at) ==
  [type |-> "reply_sent", emailId |-> reply.originalEmailId,
   replyId |-> reply.id, recipient |-> reply.to, timestamp |-> at]

\* Faulty variant of FailedLog: the entry is keyed by the reply's own id.
FailedLogByReplyId(reply) ==
  [type |-> "reply_failed", emailId |-> reply.id,
   replyId |-> reply.id, recipient |-> reply.to, timestamp |-> 0]

FailedLog(reply) ==
  [type |-> "reply_failed", emailId |-> reply.originalEmailId,
   replyId |-> reply.id, recipient |-> reply.to, timestamp |-> 0]

MonitorLog(type, emailId, replyId, details) ==
  [type |-> type, emailId |-> emailId, replyId |-> replyId,
   recipient |-> details, timestamp |-> 0]

\* sendReply, first part: transporter.sendMail is invoked and awaited.
SendMailInvoke(s, r) == [s EXCEPT ![r].invoked = @ + 1]

\* Faulty variant of SendMailResolved: sentAt is not recorded.
SendMailResolvedNoSentAt(r) ==
  /\ clock' = clock + 1
  /\ smtp' = [smtp EXCEPT ![r].delivered = @ + 1]
  /\ replies' = [replies EXCEPT ![r].status = "sent"]

\* sendMail resolved: status 'sent', sentAt = now; onReplySave is awaited.
SendMailResolved(r) ==
  /\ clock' = clock + 1
  /\ smtp' = [smtp EXCEPT ![r].delivered = @ + 1]
  /\ replies' = [replies EXCEPT ![r].status = "sent", ![r].sentAt = clock + 1]

\* sendMail rejected: the catch block sets status 'failed'; onReplySave is awaited.
SendMailRejected(r) ==
  /\ smtp' = [smtp EXCEPT ![r].failed = @ + 1]
  /\ replies' = SetStatus(replies, r, "failed")
  /\ clock' = clock

\* index.ts's onReplySave(reply), both statements done: the row of the reply
\* is created, or its status updated, with the status the reply has now.
onReplySave(rw, r) == [rw EXCEPT ![r] = replies[r].status]

\* after onReplySave: the reply_sent log; sendReply returns {success: true}.
LogSent(r, at) == logs' = Emit(logs, SentLog(replies[r], at))

\* after onReplySave in the catch block: the reply_failed log; returns {success: false}.
LogFailed(r) == logs' = Emit(logs, FailedLog(replies[r]))

\* ReadTracker.markAsRead resolved: the flag is set (idempotent).
MarkAsReadResolved(e) == seen' = [seen EXCEPT ![e] = TRUE]

\* ReadTracker.markAsRead rejected with a transport error: the flag is untouched.
MarkAsReadRejected ==
  /\ markFailures < MaxMarkFailures
  /\ markFailures' = markFailures + 1

\* ------------------------------------------------------------- strings
\* A string is the sequence of its characters.  "A" is the upper-case
\* letter of "a"; "@" and " " have no case.
AddressChars == {"a", "A", "@"}
TextChars == {"a", "A", " "}

\* The strings over the characters cs of at most n characters.
RECURSIVE StringsUpTo(_, _)
StringsUpTo(cs, n) ==
  IF n = 0 THEN {<<>>}
  ELSE LET shorter == StringsUpTo(cs, n - 1)
       IN shorter \cup {Append(s, c) : s \in shorter, c \in cs}

\* The arrays over the items xs of at most n entries.
RECURSIVE ArraysUpTo(_, _)
ArraysUpTo(xs, n) ==
  IF n = 0 THEN {<<>>}
  ELSE LET shorter == ArraysUpTo(xs, n - 1)
       IN shorter \cup {Append(a, x) : a \in shorter, x \in xs}

\* String.prototype.toLowerCase
lowerCase(s) == [i \in 1..Len(s) |-> IF s[i] = "A" THEN "a" ELSE s[i]]

\* String.prototype.indexOf(c), counted from 1; 0 where JavaScript gives -1.
indexOf(s, c) ==
  IF \E i \in 1..Len(s) : s[i] = c
    THEN CHOOSE i \in 1..Len(s) : s[i] = c /\ \A j \in 1..(i - 1) : s[j] # c
    ELSE 0

\* String.prototype.includes(k)
includes(text, k) ==
  \E i \in 0..(Len(text) - Len(k)) : SubSeq(text, i + 1, i + Len(k)) = k

\* A FilterDecision: matchedKeywords is present only where hasMatched says so.
NoDecision ==
  [approved |-> FALSE, reason |-> "none", domain |-> <<>>, hasMatched |-> FALSE,
   matchedKeywords |-> <<>>]

\* The state in which generateReply is not being tried.
NoneGiven ==
  [id |-> "none", from |-> <<>>, subject |-> <<>>, body |-> <<>>,
   replyTemplate |-> <<>>, manualConfirmation |-> FALSE]
NoneReturned ==
  [originalEmailId |-> "none", to |-> <<>>, subject |-> <<>>, body |-> <<>>,
   status |-> "none"]

\* The probe of a state in which no MessageFilter is being tried.
NoProbe ==
  [from |-> <<>>, subject |-> <<>>, body |-> <<>>, keywordsEnabled |-> FALSE,
   keywords |-> <<>>, excludedDomains |-> <<>>]

\* ------------------------------------------------------ ConfigurationManager
\* A Config, and a Partial<Config> handed to updateConfig, is a record of the
\* three sections; of the email section the two ports are modelled.  A section
\* that is absent from an update is one whose properties are all absent: both
\* skip every check of validateConfig and add nothing to the merge.
Callers == 1..NumCallers

\* The default configuration getConfig builds when the table has no row.
DefaultConfig ==
  [email |-> [imapPort |-> Num(993), smtpPort |-> Num(587)],
   filters |-> [keywordsEnabled |-> Bool(FALSE), keywords |-> Arr({}),
                excludedDomains |-> Arr({})],
   autoReply |-> [manualConfirmation |-> Bool(TRUE), replyTemplate |-> Str(1),
                  checkInterval |-> Num(10)]]

\* The update that names no property.
NoUpdate ==
  [email |-> [imapPort |-> Undefined, smtpPort |-> Undefined],
   filters |-> [keywordsEnabled |-> Undefined, keywords |-> Undefined,
                excludedDomains |-> Undefined],
   autoReply |-> [manualConfirmation |-> Undefined, replyTemplate |-> Undefined,
                  checkInterval |-> Undefined]]

\* The update { section: { field: v } }.
Update(section, field, v) == [NoUpdate EXCEPT ![section][field] = v]

\* validateConfig's check of a port or an interval: a falsy value skips it.
InvalidPositive(v) == Truthy(v) /\ (TypeOf(v) # "number" \/ v[2] <= 0)

\* validateConfig(config): the message of the Error it throws, or "ok".
validateConfig(u) ==
  IF InvalidPositive(u.email.imapPort) THEN "Invalid imapPort"
  ELSE IF InvalidPositive(u.email.smtpPort) THEN "Invalid smtpPort"
  ELSE IF u.filters.keywordsEnabled # Undefined
          /\ TypeOf(u.filters.keywordsEnabled) # "boolean"
    THEN "Invalid keywordsEnabled"
  ELSE IF Truthy(u.filters.keywords) /\ ~IsArray(u.filters.keywords)
    THEN "Invalid keywords"
  ELSE IF Truthy(u.filters.excludedDomains) /\ ~IsArray(u.filters.excludedDomains)
    THEN "Invalid excludedDomains"
  ELSE IF u.autoReply.manualConfirmation # Undefined
          /\ TypeOf(u.autoReply.manualConfirmation) # "boolean"
    THEN "Invalid manualConfirmation"
  ELSE IF Truthy(u.autoReply.replyTemplate)
          /\ TypeOf(u.autoReply.replyTemplate) # "string"
    THEN "Invalid replyTemplate"
  ELSE IF InvalidPositive(u.autoReply.checkInterval) THEN "Invalid checkInterval"
  ELSE "ok"

\* A merge that takes the section of the update where it names a property,
\* resetting the properties it does not name.
MergeSectionReplaces(cur, u) ==
  IF \A f \in DOMAIN cur : u[f] = Undefined THEN cur
  ELSE [f \in DOMAIN cur |-> IF u[f] = Undefined THEN DefaultConfig.autoReply.replyTemplate
                              ELSE u[f]]

\* { ...current.section, ...updates.section }: a property the update names
\* replaces the current one, every other property is kept.
MergeSection(cur, u) ==
  [f \in DOMAIN cur |-> IF u[f] = Undefined THEN cur[f] ELSE u[f]]

\* updateConfig's newConfig
Merge(cur, u) ==
  [email |-> MergeSection(cur.email, u.email),
   filters |-> MergeSection(cur.filters, u.filters),
   autoReply |-> MergeSection(cur.autoReply, u.autoReply)]

\* encrypt(JSON.stringify(config)) and JSON.parse(decrypt(row.value)) under the
\* manager's key: the row holds the ciphertext, not the configuration.
encrypt(c) == <<"aes-256-cbc", c>>
decrypt(row) == row[2]

\* What getConfig resolves with: the cached snapshot, else the row, else the
\* default configuration.
LoadConfig(row) == IF row = <<>> THEN DefaultConfig ELSE decrypt(row[1])
getConfig == IF currentConfig # <<>> THEN currentConfig[1] ELSE LoadConfig(dbRow)

\* A call of updateConfig: its argument and its two locals, the configuration
\* getConfig returned (current) and the merged one (newConfig).
IdleUpd ==
  [pc |-> "idle", call |-> 0, updates |-> NoUpdate, current |-> <<>>,
   newConfig |-> <<>>]

\* The configuration the application's components were built from.
AppConfig(manual, f) ==
  [DefaultConfig EXCEPT
     !.filters = [keywordsEnabled |-> Bool(f.keywordsEnabled),
                  keywords |-> Arr(f.keywords),
                  excludedDomains |-> Arr(f.excludedDomains)],
     !.autoReply.manualConfirmation = Bool(manual)]

\* The listener index.ts subscribes for hot reload.
HotReload == 0

\* new MessageFilter(config): both lists are stored lower-cased.
NewMessageFilter(enabled, keywords, domains) ==
  [keywordsEnabled |-> enabled,
   keywords |-> {toLowerCase(k) : k \in keywords},
   excludedDomains |-> {toLowerCase(d) : d \in domains}]

\* The filter configurations the application is started with: one for each
\* way of admitting and refusing the emails of the mailbox.
InitFilters ==
  {NewMessageFilter(FALSE, {}, {}), NewMessageFilter(FALSE, {}, {1}),
   NewMessageFilter(TRUE, {1}, {}), NewMessageFilter(TRUE, {}, {})}

\* The pipeline's components right after their construction.
PipelineInit ==
  /\ seen = [e \in Emails |-> FALSE]
  /\ markCalls = [e \in Emails |-> 0]
  /\ markFailures = 0
  /\ replies = <<>>
  /\ pendingReplies = {}
  /\ smtp = [r \in ReplyIds |-> [invoked |-> 0, delivered |-> 0, failed |-> 0]]
  /\ clock = 0
  /\ logs = EmptyBag
  /\ conf = [p \in Procs |-> IdleConf]
  /\ approveFound = {}
  /\ rejectFound = {}
  /\ rejectReturned = {}
  /\ isRunning = FALSE
  /\ isProcessing = FALSE
  /\ shouldStop = FALSE
  /\ intervalId = FALSE
  /\ consecutiveFailures = 0
  /\ poll = IdlePoll
  /\ stopPc = "idle"
  /\ cycles = 0
  /\ startPc = "idle"
  /\ tickSkipped = FALSE
  /\ abandoned = {}
  /\ onLogThrows = 0
  /\ raised = [e \in Emails |-> 0]
  /\ failedChecks = 0
  /\ rows = [r \in ReplyIds |-> "none"]
  /\ saving = {}

\* The application after index.ts has started it: the configuration is loaded
\* and cached, the components are built from it, the hot-reload listener is
\* subscribed.
Init ==
  /\ manualConfirmation \in BOOLEAN
  /\ messageFilter \in InitFilters
  /\ PipelineInit
  /\ currentConfig = <<AppConfig(manualConfirmation, messageFilter)>>
  /\ dbRow = <<encrypt(currentConfig[1])>>
  /\ listeners = <<HotReload>>
  /\ notified = <<>>
  /\ upd = [c \in Callers |-> IdleUpd]
  /\ updCalls = 0
  /\ probe = NoProbe
  /\ decision = NoDecision
  /\ given = NoneGiven
  /\ returned = NoneReturned

\* A ConfigurationManagerImpl right after construction on a new database:
\* nothing cached, no row, no listener.
InitManager ==
  /\ manualConfirmation = TRUE
  /\ messageFilter = NewMessageFilter(FALSE, {}, {})
  /\ PipelineInit
  /\ currentConfig = <<>>
  /\ dbRow = <<>>
  /\ listeners = <<>>
  /\ notified = <<>>
  /\ upd = [c \in Callers |-> IdleUpd]
  /\ updCalls = 0
  /\ probe = NoProbe
  /\ decision = NoDecision
  /\ given = NoneGiven
  /\ returned = NoneReturned


\* --------------------------------------------- AutoResponder.processConfirmation

\* A request that arrives is served in the lowest free slot: the slots are
\* interchangeable, and this keeps one representative of each interleaving.
FreeSlot(p) ==
  /\ conf[p].pc = "idle"
  /\ \A q \in Procs : q < p => conf[q].pc # "idle"

\* processConfirmation(replyId, approved): the reply is not in the pending Map;
\* the call throws "not found in pending queue".
ConfirmNotFound(p, replyId, approved) ==
  /\ FreeSlot(p)
  /\ PendingGet(replyId) = 0
  /\ approved \in BOOLEAN
  /\ conf' = [conf EXCEPT ![p] = [pc |-> "notFound", replyId |-> replyId,
                                  approved |-> FALSE, sentAt |-> 0]]
  /\ UNCHANGED <<configVars, repoVars, sinkVars, mailboxVars, responderVars, logs,
                 historyVars, monitorVars>>

\* The "not found" error reaches the caller of processConfirmation.
ConfNotFoundThrown(p) ==
  /\ conf[p].pc = "notFound"
  /\ conf' = [conf EXCEPT ![p] = IdleConf]
  /\ UNCHANGED <<configVars, repoVars, sinkVars, mailboxVars, responderVars, logs,
                 historyVars, monitorVars>>

\* A processConfirmation(replyId, true) that invokes markAsRead before the
\* send attempt.
ConfirmApproveMarksFirst(p, replyId) ==
  /\ FreeSlot(p)
  /\ PendingGet(replyId) # 0
  /\ LET r == PendingGet(replyId) IN
       /\ replies' = SetStatus(replies, r, ConfirmationStatus(TRUE))
       /\ smtp' = SendMailInvoke(smtp, r)
       /\ markCalls' = [markCalls EXCEPT ![replies[r].originalEmailId] = @ + 1]
       /\ conf' = [conf EXCEPT ![p] = [pc |-> "sendMail", replyId |-> r,
                                       approved |-> TRUE, sentAt |-> 0]]
       /\ approveFound' = approveFound \cup {r}
  /\ UNCHANGED <<configVars, repoVars, sinkVars, seen, markFailures, pendingReplies, clock, logs,
                 rejectFound, rejectReturned, monitorVars>>

\* processConfirmation(replyId, true): status 'approved', then sendReply is
\* awaited (suspended in transporter.sendMail).
ConfirmApprove(p, replyId) ==
  /\ FreeSlot(p)
  /\ PendingGet(replyId) # 0
  /\ LET r == PendingGet(replyId) IN
       /\ replies' = SetStatus(replies, r, ConfirmationStatus(TRUE))
       /\ smtp' = SendMailInvoke(smtp, r)
       /\ conf' = [conf EXCEPT ![p] = [pc |-> "sendMail", replyId |-> r,
                                       approved |-> TRUE, sentAt |-> 0]]
       /\ approveFound' = approveFound \cup {r}
  /\ UNCHANGED <<configVars, repoVars, sinkVars, mailboxVars, pendingReplies, clock, logs,
                 rejectFound, rejectReturned, monitorVars>>

\* processConfirmation(replyId, false): status 'rejected', then markAsRead is
\* awaited.
ConfirmReject(p, replyId) ==
  /\ FreeSlot(p)
  /\ PendingGet(replyId) # 0
  /\ LET r == PendingGet(replyId) IN
       /\ replies' = SetStatus(replies, r, ConfirmationStatus(FALSE))
       /\ markCalls' = [markCalls EXCEPT ![replies[r].originalEmailId] = @ + 1]
       /\ conf' = [conf EXCEPT ![p] = [pc |-> "markRead", replyId |-> r,
                                       approved |-> FALSE, sentAt |-> 0]]
       /\ rejectFound' = rejectFound \cup {r}
  /\ UNCHANGED <<configVars, repoVars, sinkVars, seen, markFailures, pendingReplies, smtp, clock,
                 logs, approveFound, rejectReturned, monitorVars>>

ConfSendResolved(p) ==
  /\ conf[p].pc = "sendMail"
  /\ SendMailResolved(conf[p].replyId)
  /\ conf' = [conf EXCEPT ![p].pc = "saveSent", ![p].sentAt = clock + 1]
  /\ UNCHANGED <<configVars, repoVars, sinkVars, mailboxVars, pendingReplies, logs,
                 historyVars, monitorVars>>

ConfSendRejected(p) ==
  /\ conf[p].pc = "sendMail"
  /\ SendMailRejected(conf[p].replyId)
  /\ conf' = [conf EXCEPT ![p].pc = "saveFailed"]
  /\ UNCHANGED <<configVars, repoVars, sinkVars, mailboxVars, pendingReplies, logs,
                 historyVars, monitorVars>>

\* sendReply returns (success); processConfirmation goes on to markAsRead.
ConfSavedSent(p) ==
  /\ conf[p].pc = "saveSent"
  /\ LogSent(conf[p].replyId, conf[p].sentAt)
  /\ markCalls' = [markCalls EXCEPT
                     ![replies[conf[p].replyId].originalEmailId] = @ + 1]
  /\ conf' = [conf EXCEPT ![p].pc = "markRead", ![p].sentAt = 0]
  /\ rows' = onReplySave(rows, conf[p].replyId)
  /\ UNCHANGED <<configVars, saving, sinkVars, seen, markFailures, responderVars, historyVars,
                 monitorVars>>

\* sendReply returns (failure, not thrown); processConfirmation goes on to markAsRead.
ConfSavedFailed(p) ==
  /\ conf[p].pc = "saveFailed"
  /\ LogFailed(conf[p].replyId)
  /\ markCalls' = [markCalls EXCEPT
                     ![replies[conf[p].replyId].originalEmailId] = @ + 1]
  /\ conf' = [conf EXCEPT ![p].pc = "markRead"]
  /\ rows' = onReplySave(rows, conf[p].replyId)
  /\ UNCHANGED <<configVars, saving, sinkVars, seen, markFailures, responderVars, historyVars,
                 monitorVars>>

\* markAsRead resolved: the reply is deleted from the pending Map; the call returns.
ConfMarkResolved(p) ==
  /\ conf[p].pc = "markRead"
  /\ MarkAsReadResolved(replies[conf[p].replyId].originalEmailId)
  /\ pendingReplies' = pendingReplies \ {conf[p].replyId}
  /\ conf' = [conf EXCEPT ![p] = IdleConf]
  /\ rejectReturned' = IF conf[p].approved THEN rejectReturned
                       ELSE rejectReturned \cup {conf[p].replyId}
  /\ UNCHANGED <<configVars, repoVars, sinkVars, markCalls, markFailures, replies, smtp, clock,
                 logs, approveFound, rejectFound, monitorVars>>

\* markAsRead rejected: the error propagates out of processConfirmation; the
\* delete is not reached.
ConfMarkRejected(p) ==
  /\ conf[p].pc = "markRead"
  /\ MarkAsReadRejected
  /\ conf' = [conf EXCEPT ![p] = IdleConf]
  /\ UNCHANGED <<configVars, repoVars, sinkVars, seen, markCalls, responderVars, logs,
                 historyVars, monitorVars>>

\* ------------------------------------------------------------- EmailMonitor

\* The unread emails, in mailbox order: what checkInbox's UNSEEN search returns.
RECURSIVE Unseen(_)
Unseen(n) ==
  IF n = 0 THEN <<>>
  ELSE IF seen[n] THEN Unseen(n - 1) ELSE Append(Unseen(n - 1), n)

\* DomainFilter.extractDomain(email.from)
extractDomain(e) == toLowerCase(SenderDomain(e))

\* DomainFilter.isExcluded(email.from)
isExcluded(f, e) == extractDomain(e) \in f.excludedDomains

\* KeywordMatcher.findMatches(email): the keywords the lower-cased text holds
findMatches(f, e) == {k \in f.keywords : k \in SearchText(e)}

\* MessageFilter.shouldAutoReply(email).approved for the filter state f
Decision(f, e) ==
  IF isExcluded(f, e) THEN FALSE
  ELSE IF f.keywordsEnabled THEN findMatches(f, e) # {}
  ELSE TRUE

\* Details of an email_filtered entry that leave the reason out.
FilteredDetailsNoReason(f, e) == "Email filtered out"

\* The details of the email_filtered entry for an email the filter state f
\* refuses: `Email filtered out: ${filterDecision.reason}`.
FilteredDetails(f, e) ==
  IF isExcluded(f, e) THEN "Email filtered out: Sender domain is excluded"
  ELSE "Email filtered out: Email does not contain any required keywords"

\* processEmail's call of messageFilter.shouldAutoReply(email)
shouldAutoReply(e) == Decision(messageFilter, e)

\* queueForConfirmation(reply): status forced to 'pending', reply put in the Map.
queueForConfirmation(rs, r) == SetStatus(rs, r, "pending")

\* EmailMonitorImpl.logActivity(entry): config.onLog(entry), called unguarded.
\* While the next k calls of onLog throw, the call throws and no entry is
\* kept; else the sink lg receives the entry.
logActivity(lg, k, entry) ==
  [logs |-> IF k > 0 THEN lg ELSE Emit(lg, entry),
   sink |-> IF k > 0 THEN k - 1 ELSE 0,
   threw |-> k > 0]

\* The entry processEmail's catch block logs for the email.
ProcessErrorLog(e) == MonitorLog("error", e, 0, "error processing email")

\* The per-email counts rz with one more for each email of es.
Raise(rz, es) == [e \in DOMAIN rz |-> IF e \in es THEN rz[e] + 1 ELSE rz[e]]

\* What pollInbox's for loop has done when it next awaits I/O or ends.
LoopState(pc, batch, e, r, rs, pend, lg, k, cg) ==
  [pc |-> pc, batch |-> batch, email |-> e, reply |-> r,
   replies |-> rs, pending |-> pend, logs |-> lg, sink |-> k, caught |-> cg]

\* pollInbox's for loop over `batch`, run to its next await of I/O.  Awaiting a
\* processEmail that queued its reply, or whose catch block logged the error,
\* yields no I/O: the loop runs on.  k is the number of onLog calls that throw
\* next, cg the emails whose catch block has run.
\*   "idle":     the batch is exhausted or shouldStop broke the loop (batch
\*               is then what the break left); the finally block clears
\*               isProcessing;
\*   "markRead": processEmail filtered the email out, logged it and awaits markAsRead;
\*   "sendMail": processEmail generated a non-pending reply and awaits sendReply;
\*   "escaped":  logActivity threw inside processEmail's catch block: the
\*               error leaves processEmail and the loop;
\*   "capped":   the model's MaxReplies is exhausted.
RECURSIVE RunLoop(_, _, _, _, _, _)
RunLoop(batch, rs, pend, lg, k, cg) ==
  IF shouldStop \/ batch = <<>>
    THEN LoopState("idle", batch, 0, 0, rs, pend, lg, k, cg)
  ELSE LET e == Head(batch) IN
    IF ~shouldAutoReply(e)
      THEN LET l == logActivity(lg, k, MonitorLog("email_filtered", e, 0,
                                                  FilteredDetails(messageFilter, e)))
               c == logActivity(l.logs, l.sink, ProcessErrorLog(e))
           IN IF ~l.threw
                THEN LoopState("markRead", Tail(batch), e, 0, rs, pend,
                               l.logs, l.sink, cg)
              ELSE IF c.threw
                THEN LoopState("escaped", Tail(batch), e, 0, rs, pend,
                               c.logs, c.sink, cg \cup {e})
              ELSE RunLoop(Tail(batch), rs, pend, c.logs, c.sink, cg \cup {e})
    ELSE IF Len(rs) >= MaxReplies
      THEN LoopState("capped", batch, 0, 0, rs, pend, lg, k, cg)
    ELSE LET reply == generateReply(e, Len(rs) + 1) IN
      IF reply.status = "pending"
        THEN LET queued == queueForConfirmation(Append(rs, reply), reply.id)
                 l == logActivity(lg, k, MonitorLog("email_filtered", e,
                                                    reply.id, "queued"))
                 c == logActivity(l.logs, l.sink, ProcessErrorLog(e))
             IN IF ~l.threw
                  THEN RunLoop(Tail(batch), queued, pend \cup {reply.id},
                               l.logs, l.sink, cg)
                ELSE IF c.threw
                  THEN LoopState("escaped", Tail(batch), e, 0, queued,
                                 pend \cup {reply.id}, c.logs, c.sink, cg \cup {e})
                ELSE RunLoop(Tail(batch), queued, pend \cup {reply.id},
                             c.logs, c.sink, cg \cup {e})
        ELSE LoopState("sendMail", Tail(batch), e, reply.id,
                       Append(rs, reply), pend, lg, k, cg)

\* Faulty variant of ResumeLoop: an email whose reply the loop queued for
\* confirmation is handed to markAsRead as well.
ResumeLoopMarksQueued(batch, lg) ==
  LET out == RunLoop(batch, replies, pendingReplies, lg, onLogThrows, {}) IN
    /\ out.pc # "capped"
    /\ poll' = [pc |-> out.pc,
                batch |-> IF out.pc = "idle" THEN <<>> ELSE out.batch,
                email |-> out.email, reply |-> out.reply, sentAt |-> 0]
    /\ abandoned' = IF out.pc = "idle" /\ poll.pc = "markRead"
                      THEN abandoned \cup {out.batch[i] : i \in 1..Len(out.batch)}
                      ELSE abandoned
    /\ replies' = out.replies
    /\ pendingReplies' = out.pending
    /\ logs' = out.logs
    /\ onLogThrows' = out.sink
    /\ saving' = saving \cup ((1..Len(out.replies)) \ (1..Len(replies)))
    /\ isProcessing' = (out.pc # "idle")
    /\ markCalls' = [e \in DOMAIN markCalls |->
                       IF \/ out.pc = "markRead" /\ out.email = e
                          \/ \E r \in out.pending \ pendingReplies :
                               out.replies[r].originalEmailId = e
                         THEN markCalls[e] + 1
                         ELSE markCalls[e]]
    /\ smtp' = IF out.pc = "sendMail" THEN SendMailInvoke(smtp, out.reply) ELSE smtp

\* The for loop resumes over `batch` with the log sink at `lg`.
ResumeLoop(batch, lg) ==
  LET out == RunLoop(batch, replies, pendingReplies, lg, onLogThrows, {}) IN
    /\ out.pc # "capped"
    /\ poll' = [pc |-> out.pc,
                batch |-> IF out.pc = "idle" THEN <<>> ELSE out.batch,
                email |-> out.email, reply |-> out.reply, sentAt |-> 0]
    /\ abandoned' = IF out.pc = "idle" /\ poll.pc = "markRead"
                      THEN abandoned \cup {out.batch[i] : i \in 1..Len(out.batch)}
                      ELSE abandoned
    /\ replies' = out.replies
    /\ pendingReplies' = out.pending
    /\ logs' = out.logs
    /\ onLogThrows' = out.sink
    /\ saving' = saving \cup ((1..Len(out.replies)) \ (1..Len(replies)))
    /\ isProcessing' = (out.pc # "idle")
    /\ markCalls' = IF out.pc = "markRead"
                      THEN [markCalls EXCEPT ![out.email] = @ + 1]
                      ELSE markCalls
    /\ smtp' = IF out.pc = "sendMail" THEN SendMailInvoke(smtp, out.reply) ELSE smtp

\* The emails whose catch block runs while the loop resumes over `batch`.
CaughtIn(batch, lg) ==
  RunLoop(batch, replies, pendingReplies, lg, onLogThrows, {}).caught

\* Faulty variant of PollBegins: a cycle in flight is not looked at.
PollBeginsIgnoresInFlight == ~shouldStop

\* pollInbox up to its first await: returns at once while a cycle is in flight
\* or a stop was requested; else sets isProcessing and awaits checkInbox.
PollBegins == ~isProcessing /\ ~shouldStop

\* Faulty variant of AlreadyRunning: only a monitor whose timer is armed counts
\* as running.
AlreadyRunningOnlyWhileArmed == isRunning /\ intervalId

\* start()'s guard: `if (this.isRunning) throw`.
AlreadyRunning == isRunning

\* start(): throws when already running (StartAlreadyRunning); else sets the flags,
\* logs, arms the timer and calls pollInbox for the immediate check.  When
\* logActivity throws, start() rejects with the flags set and no timer armed.
Start ==
  /\ ~AlreadyRunning
  /\ cycles < MaxCycles
  /\ isRunning' = TRUE
  /\ shouldStop' = FALSE
  /\ consecutiveFailures' = 0
  /\ LET l == logActivity(logs, onLogThrows,
                          MonitorLog("email_filtered", 0, 0, "started"))
     IN /\ logs' = l.logs
        /\ onLogThrows' = l.sink
        /\ IF l.threw
             THEN UNCHANGED <<intervalId, isProcessing, poll, cycles>>
             ELSE /\ intervalId' = TRUE
                  /\ IF ~isProcessing
                       THEN /\ isProcessing' = TRUE
                            /\ poll' = [IdlePoll EXCEPT !.pc = "checkInbox"]
                            /\ cycles' = cycles + 1
                       ELSE UNCHANGED <<isProcessing, poll, cycles>>
  /\ failedChecks' = 0
  /\ UNCHANGED <<configVars, repoVars, raised, guardVars, abandoned,
                 mailboxVars, responderVars, conf, historyVars,
                 stopPc>>

\* The setInterval callback: pollInbox().  A tick that finds a cycle in
\* flight, or shouldStop set, returns at once and changes nothing.
Tick(limit) ==
  /\ intervalId
  /\ PollBegins
  /\ cycles < limit
  /\ isProcessing' = TRUE
  /\ poll' = [IdlePoll EXCEPT !.pc = "checkInbox"]
  /\ cycles' = cycles + 1
  /\ UNCHANGED <<configVars, repoVars, sinkVars, guardVars, abandoned,
                 mailboxVars, responderVars, logs, conf,
                 historyVars, isRunning, shouldStop, intervalId,
                 consecutiveFailures, stopPc>>

TimerTick == Tick(MaxCycles)

\* The same callback, with the monitor followed over MaxMonitorCycles cycles.
TimerTickMonitor == Tick(MaxMonitorCycles)

\* The callback while a cycle is in flight or a stop was requested: pollInbox
\* returns at its guard; no cycle begins and nothing is kept for later.
TimerTickSkipped ==
  /\ intervalId
  /\ ~PollBegins
  /\ tickSkipped' = TRUE
  /\ UNCHANGED <<configVars, repoVars, sinkVars, mailboxVars, responderVars, logs, conf,
                 historyVars, isRunning, isProcessing, shouldStop, intervalId,
                 consecutiveFailures, poll, stopPc, cycles, startPc, abandoned>>

\* start() finds isRunning set: it throws 'EmailMonitor is already running'.
StartAlreadyRunning ==
  /\ AlreadyRunning
  /\ startPc = "idle"
  /\ startPc' = "thrown"
  /\ UNCHANGED <<configVars, repoVars, sinkVars, mailboxVars, responderVars, logs, conf,
                 historyVars, isRunning, isProcessing, shouldStop, intervalId,
                 consecutiveFailures, poll, stopPc, cycles, tickSkipped,
                 abandoned>>

\* The error reaches the caller of start().
StartThrown ==
  /\ startPc = "thrown"
  /\ startPc' = "idle"
  /\ UNCHANGED <<configVars, repoVars, sinkVars, mailboxVars, responderVars, logs, conf,
                 historyVars, isRunning, isProcessing, shouldStop, intervalId,
                 consecutiveFailures, poll, stopPc, cycles, tickSkipped,
                 abandoned>>

\* checkInbox resolved with the unread emails: the failure counter is reset
\* and the for loop starts.
CheckInboxResolved ==
  /\ poll.pc = "checkInbox"
  /\ consecutiveFailures' = 0
  /\ ResumeLoop(Unseen(NumEmails), logs)
  /\ raised' = Raise(raised, CaughtIn(Unseen(NumEmails), logs))
  /\ failedChecks' = 0
  /\ UNCHANGED <<configVars, rows, guardVars,
                 seen, markFailures, clock, conf, historyVars,
                 isRunning, shouldStop, intervalId, stopPc, cycles>>

\* Faulty variant of FailureLogs: the alert entry is written one failure early.
FailureLogsAlertsEarly(lg, n) ==
  LET one == Emit(lg, MonitorLog("error", 0, 0, "check inbox failed"))
  IN IF n >= MAX_CONSECUTIVE_FAILURES - 1
       THEN Emit(one, MonitorLog("error", 0, 0, "max consecutive failures"))
       ELSE one

\* pollInbox's catch block: the error entry of the n-th consecutive failure,
\* and the "Maximum consecutive failures" entry from the fifth on.
FailureLogs(lg, n) ==
  LET one == Emit(lg, MonitorLog("error", 0, 0, "check inbox failed"))
  IN IF n >= MAX_CONSECUTIVE_FAILURES
       THEN Emit(one, MonitorLog("error", 0, 0, "max consecutive failures"))
       ELSE one

\* pollInbox's catch block for the n-th consecutive failure while the next k
\* calls of onLog throw: a logActivity that throws ends the block.
pollCatch(lg, k, n) ==
  IF k > 0 THEN [logs |-> lg, sink |-> k - 1]
  ELSE [logs |-> FailureLogs(lg, n), sink |-> 0]

\* Faulty variant of CheckInboxRejected: the timer is cleared once the
\* maximum of consecutive failures is reached.
CheckInboxRejectedGivesUp ==
  /\ poll.pc = "checkInbox"
  /\ consecutiveFailures' = consecutiveFailures + 1
  /\ logs' = pollCatch(logs, onLogThrows, consecutiveFailures + 1).logs
  /\ onLogThrows' = pollCatch(logs, onLogThrows, consecutiveFailures + 1).sink
  /\ isProcessing' = FALSE
  /\ intervalId' = (intervalId /\ consecutiveFailures + 1 < MAX_CONSECUTIVE_FAILURES)
  /\ poll' = IdlePoll
  /\ failedChecks' = failedChecks + 1
  /\ UNCHANGED <<configVars, repoVars, raised, guardVars, abandoned,
                 mailboxVars, responderVars, conf, historyVars,
                 isRunning, shouldStop, stopPc, cycles>>

\* checkInbox rejected: the catch block counts and logs the failure, and the
\* finally block clears isProcessing.
CheckInboxRejected ==
  /\ poll.pc = "checkInbox"
  /\ consecutiveFailures' = consecutiveFailures + 1
  /\ logs' = pollCatch(logs, onLogThrows, consecutiveFailures + 1).logs
  /\ onLogThrows' = pollCatch(logs, onLogThrows, consecutiveFailures + 1).sink
  /\ isProcessing' = FALSE
  /\ poll' = IdlePoll
  /\ failedChecks' = failedChecks + 1
  /\ UNCHANGED <<configVars, repoVars, raised, guardVars, abandoned,
                 mailboxVars, responderVars, conf, historyVars,
                 isRunning, shouldStop, intervalId, stopPc, cycles>>

\* processEmail's sendReply: sendMail resolved.
PollSendResolved ==
  /\ poll.pc = "sendMail"
  /\ SendMailResolved(poll.reply)
  /\ poll' = [poll EXCEPT !.pc = "saveSent", !.sentAt = clock + 1]
  /\ UNCHANGED <<configVars, repoVars, sinkVars, guardVars, abandoned,
                 mailboxVars, pendingReplies, logs, conf,
                 historyVars, isRunning, isProcessing, shouldStop, intervalId,
                 consecutiveFailures, stopPc, cycles>>

\* processEmail's sendReply: sendMail rejected.
PollSendRejected ==
  /\ poll.pc = "sendMail"
  /\ SendMailRejected(poll.reply)
  /\ poll' = [poll EXCEPT !.pc = "saveFailed"]
  /\ UNCHANGED <<configVars, repoVars, sinkVars, guardVars, abandoned,
                 mailboxVars, pendingReplies, logs, conf,
                 historyVars, isRunning, isProcessing, shouldStop, intervalId,
                 consecutiveFailures, stopPc, cycles>>

\* sendReply returns (success); processEmail goes on to markAsRead(email.id).
PollSavedSent ==
  /\ poll.pc = "saveSent"
  /\ LogSent(poll.reply, poll.sentAt)
  /\ markCalls' = [markCalls EXCEPT ![poll.email] = @ + 1]
  /\ poll' = [poll EXCEPT !.pc = "markRead", !.sentAt = 0]
  /\ rows' = onReplySave(rows, poll.reply)
  /\ UNCHANGED <<configVars, saving, sinkVars, guardVars, abandoned,
                 seen, markFailures, responderVars, conf,
                 historyVars, isRunning, isProcessing, shouldStop, intervalId,
                 consecutiveFailures, stopPc, cycles>>

\* sendReply returns (failure, not thrown); processEmail goes on to markAsRead.
PollSavedFailed ==
  /\ poll.pc = "saveFailed"
  /\ LogFailed(poll.reply)
  /\ markCalls' = [markCalls EXCEPT ![poll.email] = @ + 1]
  /\ poll' = [poll EXCEPT !.pc = "markRead"]
  /\ rows' = onReplySave(rows, poll.reply)
  /\ UNCHANGED <<configVars, saving, sinkVars, guardVars, abandoned,
                 seen, markFailures, responderVars, conf,
                 historyVars, isRunning, isProcessing, shouldStop, intervalId,
                 consecutiveFailures, stopPc, cycles>>

\* markAsRead resolved: processEmail returns; the loop goes on.
PollMarkResolved ==
  /\ poll.pc = "markRead"
  /\ MarkAsReadResolved(poll.email)
  /\ ResumeLoop(poll.batch, logs)
  /\ raised' = Raise(raised, CaughtIn(poll.batch, logs))
  /\ UNCHANGED <<configVars, rows, failedChecks, guardVars,
                 markFailures, clock, conf, historyVars,
                 isRunning, shouldStop, intervalId, consecutiveFailures,
                 stopPc, cycles>>

\* markAsRead rejected: processEmail's catch block logs an error entry for the
\* email and the loop goes on; when that logActivity throws, the error leaves
\* processEmail.
PollMarkRejected ==
  /\ poll.pc = "markRead"
  /\ MarkAsReadRejected
  /\ LET c == logActivity(logs, onLogThrows, ProcessErrorLog(poll.email)) IN
       IF c.threw
         THEN /\ poll' = [poll EXCEPT !.pc = "escaped"]
              /\ logs' = c.logs
              /\ onLogThrows' = c.sink
              /\ raised' = Raise(raised, {poll.email})
              /\ UNCHANGED <<abandoned, replies, pendingReplies, isProcessing,
                             markCalls, smtp, saving>>
         ELSE /\ ResumeLoop(poll.batch, c.logs)
              /\ raised' = Raise(raised, {poll.email} \cup CaughtIn(poll.batch, c.logs))
  /\ UNCHANGED <<configVars, rows, failedChecks, guardVars,
                 seen, clock, conf, historyVars, isRunning,
                 shouldStop, intervalId, consecutiveFailures, stopPc, cycles>>

\* The error that left processEmail reaches pollInbox's catch block, which
\* counts it as a failed cycle and logs it; the finally block clears
\* isProcessing.  The emails left in the batch are not processed.
ProcessEmailEscaped ==
  /\ poll.pc = "escaped"
  /\ consecutiveFailures' = consecutiveFailures + 1
  /\ logs' = pollCatch(logs, onLogThrows, consecutiveFailures + 1).logs
  /\ onLogThrows' = pollCatch(logs, onLogThrows, consecutiveFailures + 1).sink
  /\ isProcessing' = FALSE
  /\ poll' = IdlePoll
  /\ UNCHANGED <<configVars, repoVars, raised, failedChecks, guardVars, abandoned,
                 mailboxVars, responderVars, conf, historyVars,
                 isRunning, shouldStop, intervalId, stopPc, cycles>>

\* The log sink handed to the monitor starts to throw: its next n calls throw.
OnLogBreaks ==
  /\ onLogThrows = 0
  /\ \E n \in 1..MaxOnLogThrows : onLogThrows' = n
  /\ UNCHANGED <<configVars, repoVars, raised, failedChecks, mailboxVars, responderVars, logs, conf,
                 historyVars, monitorVars>>

\* stop(): returns at once when not running (no action); else sets shouldStop,
\* clears the timer and waits, in 100 ms sleeps, while isProcessing.
Stop ==
  /\ isRunning
  /\ stopPc = "idle"
  /\ shouldStop' = TRUE
  /\ intervalId' = FALSE
  /\ IF isProcessing
       THEN /\ stopPc' = "waiting"
            /\ UNCHANGED <<isRunning, logs, onLogThrows>>
       ELSE /\ isRunning' = FALSE
            /\ logs' = logActivity(logs, onLogThrows,
                                   MonitorLog("email_filtered", 0, 0, "stopped")).logs
            /\ onLogThrows' = logActivity(logs, onLogThrows,
                                   MonitorLog("email_filtered", 0, 0, "stopped")).sink
            /\ UNCHANGED stopPc
  /\ UNCHANGED <<configVars, repoVars, raised, failedChecks, guardVars, abandoned,
                 mailboxVars, responderVars, conf, historyVars,
                 isProcessing, consecutiveFailures, poll, cycles>>

\* Faulty variant of StopWake: stop() returns after its first sleep.
StopWakeWithoutWaiting ==
  /\ stopPc = "waiting"
  /\ isRunning' = FALSE
  /\ logs' = logActivity(logs, onLogThrows,
                         MonitorLog("email_filtered", 0, 0, "stopped")).logs
  /\ onLogThrows' = logActivity(logs, onLogThrows,
                         MonitorLog("email_filtered", 0, 0, "stopped")).sink
  /\ stopPc' = "idle"
  /\ UNCHANGED <<configVars, repoVars, raised, failedChecks, guardVars, abandoned,
                 mailboxVars, responderVars, conf, historyVars,
                 isProcessing, shouldStop, intervalId, consecutiveFailures,
                 poll, cycles>>

\* A stop() whose sleep loop ends without clearing isRunning.
StopWakeLeavesRunning ==
  /\ stopPc = "waiting"
  /\ ~isProcessing
  /\ stopPc' = "idle"
  /\ UNCHANGED <<configVars, repoVars, sinkVars, guardVars, abandoned,
                 mailboxVars, responderVars, logs, conf, historyVars,
                 isRunning, isProcessing, shouldStop, intervalId,
                 consecutiveFailures, poll, cycles>>

\* stop() wakes from a sleep and finds isProcessing cleared.
StopWake ==
  /\ stopPc = "waiting"
  /\ ~isProcessing
  /\ isRunning' = FALSE
  /\ logs' = logActivity(logs, onLogThrows,
                         MonitorLog("email_filtered", 0, 0, "stopped")).logs
  /\ onLogThrows' = logActivity(logs, onLogThrows,
                         MonitorLog("email_filtered", 0, 0, "stopped")).sink
  /\ stopPc' = "idle"
  /\ UNCHANGED <<configVars, repoVars, raised, failedChecks, guardVars, abandoned,
                 mailboxVars, responderVars, conf, historyVars,
                 isProcessing, shouldStop, intervalId, consecutiveFailures,
                 poll, cycles>>

\* A second stop() while an earlier one sleeps in its loop (isRunning is still
\* set): it sets shouldStop, finds the timer cleared and sleeps too, or
\* finishes at once when no cycle is in flight.
StopOverlapping ==
  /\ isRunning
  /\ stopPc = "waiting"
  /\ shouldStop' = TRUE
  /\ intervalId' = FALSE
  /\ IF isProcessing
       THEN /\ stopPc' = "twoWaiting"
            /\ UNCHANGED <<isRunning, logs, onLogThrows>>
       ELSE /\ isRunning' = FALSE
            /\ logs' = logActivity(logs, onLogThrows,
                                   MonitorLog("email_filtered", 0, 0, "stopped")).logs
            /\ onLogThrows' = logActivity(logs, onLogThrows,
                                   MonitorLog("email_filtered", 0, 0, "stopped")).sink
            /\ UNCHANGED stopPc
  /\ UNCHANGED <<configVars, repoVars, raised, failedChecks, guardVars, abandoned,
                 mailboxVars, responderVars, conf, historyVars,
                 isProcessing, consecutiveFailures, poll, cycles>>

\* One of two sleeping stop() calls wakes and finds isProcessing cleared: it
\* clears isRunning, logs and returns; the other sleeps on.
StopWakeOfTwo ==
  /\ stopPc = "twoWaiting"
  /\ ~isProcessing
  /\ isRunning' = FALSE
  /\ logs' = logActivity(logs, onLogThrows,
                         MonitorLog("email_filtered", 0, 0, "stopped")).logs
  /\ onLogThrows' = logActivity(logs, onLogThrows,
                         MonitorLog("email_filtered", 0, 0, "stopped")).sink
  /\ stopPc' = "waiting"
  /\ UNCHANGED <<configVars, repoVars, raised, failedChecks, guardVars, abandoned,
                 mailboxVars, responderVars, conf, historyVars,
                 isProcessing, shouldStop, intervalId, consecutiveFailures,
                 poll, cycles>>

\* The onReplySave that generateReply started for reply r, and did not await,
\* has written the row.
ReplySaved(r) ==
  /\ r \in saving
  /\ rows' = onReplySave(rows, r)
  /\ saving' = saving \ {r}
  /\ UNCHANGED <<configVars, sinkVars, mailboxVars, responderVars, logs, conf,
                 historyVars, monitorVars>>

\* The management API's requests, each inside processConfirmation.
ResponderNext ==
  \/ \E p \in Procs, r \in ReplyIds, a \in BOOLEAN : ConfirmNotFound(p, r, a)
  \/ \E p \in Procs : ConfNotFoundThrown(p)
  \/ \E p \in Procs, r \in ReplyIds : ConfirmApprove(p, r)
  \/ \E p \in Procs, r \in ReplyIds : ConfirmReject(p, r)
  \/ \E p \in Procs : ConfSendResolved(p)
  \/ \E p \in Procs : ConfSendRejected(p)
  \/ \E p \in Procs : ConfSavedSent(p)
  \/ \E p \in Procs : ConfSavedFailed(p)
  \/ \E p \in Procs : ConfMarkResolved(p)
  \/ \E p \in Procs : ConfMarkRejected(p)

\* start(), the timer and the poll cycle.
PipelineNext ==
  \/ Start
  \/ TimerTick
  \/ CheckInboxResolved
  \/ CheckInboxRejected
  \/ PollSendResolved
  \/ PollSendRejected
  \/ PollSavedSent
  \/ PollSavedFailed
  \/ PollMarkResolved
  \/ PollMarkRejected

\* stop().
StopNext ==
  \/ Stop
  \/ StopWake

\* The running application: API requests concurrent with the poll pipeline.
Next == ResponderNext \/ PipelineNext

Spec == Init /\ [][Next]_vars

\* Ticks and start() calls that return at their guards; later cycles.
GuardNext ==
  \/ TimerTickMonitor
  \/ TimerTickSkipped
  \/ StartAlreadyRunning
  \/ StartThrown

\* The monitor alone, with stop(): no API request arrives.
MonitorNext == PipelineNext \/ StopNext \/ GuardNext

SpecMonitor == Init /\ [][MonitorNext]_vars

\* stop() on a monitor that is not running: `if (!this.isRunning) return`.
StopNotRunning ==
  /\ ~isRunning
  /\ stopPc = "idle"
  /\ stopPc' = "returned"
  /\ UNCHANGED <<configVars, repoVars, sinkVars, guardVars, abandoned,
                 mailboxVars, responderVars, logs, conf, historyVars,
                 isRunning, isProcessing, shouldStop, intervalId,
                 consecutiveFailures, poll, cycles>>

\* The promise of that stop() call resolves.
StopReturned ==
  /\ stopPc = "returned"
  /\ stopPc' = "idle"
  /\ UNCHANGED <<configVars, repoVars, sinkVars, guardVars, abandoned,
                 mailboxVars, responderVars, logs, conf, historyVars,
                 isRunning, isProcessing, shouldStop, intervalId,
                 consecutiveFailures, poll, cycles>>

\* A step of the poll cycle in flight: the callback of its pending I/O.
PollStep ==
  \/ CheckInboxResolved
  \/ CheckInboxRejected
  \/ PollSendResolved
  \/ PollSendRejected
  \/ PollSavedSent
  \/ PollSavedFailed
  \/ PollMarkResolved
  \/ PollMarkRejected

\* The monitor with every stop() call, also those that find it not running.
StopLiveNext == MonitorNext \/ StopNotRunning \/ StopReturned

\* The same monitor where the I/O of a poll cycle in flight completes and
\* the 100 ms timer of a sleeping stop() fires.
SpecStopLive ==
  /\ Init
  /\ [][StopLiveNext]_vars
  /\ WF_vars(PollStep)
  /\ WF_vars(StopWake)
  /\ WF_vars(StopReturned)

\* The monitor with stop() calls that overlap.
StopsNext == MonitorNext \/ StopOverlapping \/ StopWakeOfTwo

SpecStops == Init /\ [][StopsNext]_vars

\* POST /replies/:id/approve and /reject: the route reads the row of the reply
\* and answers 404 or 400 unless it is there with status 'pending'; then it
\* awaits processConfirmation(id, approved).
RouteConfirm(p, id, approved) ==
  /\ rows[id] = "pending"
  /\ \/ ConfirmNotFound(p, id, approved)
     \/ approved /\ ConfirmApprove(p, id)
     \/ ~approved /\ ConfirmReject(p, id)

\* The requests of the management API that change a reply, from the route on.
RouteNext ==
  \/ \E p \in Procs, id \in ReplyIds, a \in BOOLEAN : RouteConfirm(p, id, a)
  \/ \E p \in Procs : ConfNotFoundThrown(p)
  \/ \E p \in Procs : ConfSendResolved(p)
  \/ \E p \in Procs : ConfSendRejected(p)
  \/ \E p \in Procs : ConfSavedSent(p)
  \/ \E p \in Procs : ConfSavedFailed(p)
  \/ \E p \in Procs : ConfMarkResolved(p)
  \/ \E p \in Procs : ConfMarkRejected(p)

\* The application with its reply table: the poll pipeline, the saves that
\* generateReply starts, and the API's approve and reject routes.
ViewNext == RouteNext \/ PipelineNext \/ \E r \in ReplyIds : ReplySaved(r)

SpecView == Init /\ [][ViewNext]_vars

\* The poll pipeline with a log sink that may throw: no API request arrives.
SinkNext == PipelineNext \/ ProcessEmailEscaped \/ OnLogBreaks

SpecSink == Init /\ [][SinkNext]_vars

\* ------------------------------------------------------ ConfigurationManager
\* sqlite3 runs the statements of the connection one at a time: a statement
\* reads or writes the row at the step that delivers its callback.

pipelineVars == <<mailboxVars, responderVars, logs, conf, historyVars, monitorVars,
                  sinkVars, repoVars>>

\* The updates the callers of the manager hand to updateConfig.
ManagerUpdates ==
  {Update("email", "imapPort", Num(143)), Update("email", "imapPort", Num(0)),
   Update("email", "imapPort", Num(0 - 1)), Update("email", "smtpPort", Str(1)),
   Update("email", "smtpPort", Str(0)),
   Update("filters", "keywordsEnabled", Bool(TRUE)),
   Update("filters", "keywordsEnabled", Str(1)),
   Update("filters", "keywords", Arr({1})),
   Update("autoReply", "manualConfirmation", Bool(FALSE)),
   Update("autoReply", "checkInterval", Num(30)),
   Update("autoReply", "checkInterval", Num(0)),
   [Update("autoReply", "replyTemplate", Str(2)) EXCEPT
      !.filters.excludedDomains = Arr({1})]}

\* A hot-reload listener that leaves the excluded domains alone.
HotReloadListenerSkipsDomains(f, config) ==
  IF ~IsArray(config.filters.keywords) THEN f
  ELSE [f EXCEPT !.keywords = {toLowerCase(k) : k \in config.filters.keywords[2]},
                 !.keywordsEnabled = Truthy(config.filters.keywordsEnabled)]

\* The hot-reload listener of index.ts: three calls on the MessageFilter.  A
\* call that throws (map of a value that is no array) ends the listener.
HotReloadListener(f, config) ==
  IF ~IsArray(config.filters.keywords) THEN f
  ELSE LET f1 == [f EXCEPT !.keywords =
                     {toLowerCase(k) : k \in config.filters.keywords[2]}]
       IN IF ~IsArray(config.filters.excludedDomains) THEN f1
          ELSE [f1 EXCEPT
                  !.excludedDomains =
                     {toLowerCase(d) : d \in config.filters.excludedDomains[2]},
                  !.keywordsEnabled = Truthy(config.filters.keywordsEnabled)]

\* Whether listener(config) throws.  Listener 1 stands for a subscriber whose
\* callback throws on every call; the hot-reload listener throws where it maps
\* over a value that is no array.
Throws(l, config) ==
  \/ l = 1
  \/ /\ l = HotReload
     /\ ~(IsArray(config.filters.keywords) /\ IsArray(config.filters.excludedDomains))

\* A notifyListeners without the try: the first listener that throws ends
\* the loop.
notifyListenersUntilThrow(config, cached, n) ==
  LET last == IF \E i \in 1..Len(listeners) : Throws(listeners[i], config)
                THEN CHOOSE i \in 1..Len(listeners) :
                       /\ Throws(listeners[i], config)
                       /\ \A j \in 1..(i - 1) : ~Throws(listeners[j], config)
                ELSE Len(listeners)
  IN [i \in 1..last |->
        [call |-> n, listener |-> listeners[i], config |-> config, cached |-> cached]]

\* notifyListeners(config) of the call numbered n: every listener is invoked,
\* in the order of the array, and what a listener throws is caught and
\* printed; cached is what the manager holds at that moment.
notifyListeners(config, cached, n) ==
  [i \in 1..Len(listeners) |->
     [call |-> n, listener |-> listeners[i], config |-> config, cached |-> cached]]

\* A call is served in the lowest free slot (the slots are interchangeable).
FreeCaller(c) ==
  /\ upd[c].pc = "idle"
  /\ \A d \in Callers : d < c => upd[d].pc # "idle"

\* updateConfig(updates) up to its first database statement: validateConfig
\* throws, or getConfig returns the cached snapshot and db.run is issued, or
\* nothing is cached and getConfig issues db.get.
UpdateConfig(c, u) ==
  /\ FreeCaller(c)
  /\ updCalls < MaxUpdateCalls
  /\ updCalls' = updCalls + 1
  /\ LET call == [IdleUpd EXCEPT !.call = updCalls + 1, !.updates = u]
     IN upd' = [upd EXCEPT ![c] =
          IF validateConfig(u) # "ok" THEN [call EXCEPT !.pc = "rejected"]
          ELSE IF currentConfig = <<>> THEN [call EXCEPT !.pc = "dbGet"]
          ELSE [call EXCEPT !.pc = "dbRun", !.current = currentConfig,
                            !.newConfig = <<Merge(currentConfig[1], u)>>]]
  /\ UNCHANGED <<manualConfirmation, messageFilter, currentConfig, dbRow,
                 listeners, notified, probeVars, pipelineVars>>

\* db.get's callback inside getConfig: the row (or the default) is cached and
\* returned, updateConfig merges and issues db.run.
UpdateGetResolved(c) ==
  /\ upd[c].pc = "dbGet"
  /\ currentConfig' = <<LoadConfig(dbRow)>>
  /\ upd' = [upd EXCEPT ![c].pc = "dbRun", ![c].current = <<LoadConfig(dbRow)>>,
                         ![c].newConfig = <<Merge(LoadConfig(dbRow), upd[c].updates)>>]
  /\ UNCHANGED <<manualConfirmation, messageFilter, dbRow, listeners, notified,
                 updCalls, probeVars, pipelineVars>>

\* db.get's callback with an error: getConfig rejects, and so does updateConfig.
UpdateGetRejected(c) ==
  /\ upd[c].pc = "dbGet"
  /\ upd' = [upd EXCEPT ![c].pc = "rejected"]
  /\ UNCHANGED <<manualConfirmation, messageFilter, currentConfig, dbRow, listeners,
                 notified, updCalls, probeVars, pipelineVars>>

\* A db.run callback that notifies the listeners before it replaces the
\* cached snapshot.
UpdateRunResolvedNotifiesFirst(c) ==
  /\ upd[c].pc = "dbRun"
  /\ dbRow' = <<encrypt(upd[c].newConfig[1])>>
  /\ currentConfig' = upd[c].newConfig
  /\ notified' = notified \o notifyListeners(upd[c].newConfig[1], currentConfig,
                                              upd[c].call)
  /\ messageFilter' = IF \E i \in 1..Len(listeners) : listeners[i] = HotReload
                        THEN HotReloadListener(messageFilter, upd[c].newConfig[1])
                        ELSE messageFilter
  /\ upd' = [upd EXCEPT ![c].pc = "resolved"]
  /\ UNCHANGED <<manualConfirmation, listeners, updCalls, probeVars, pipelineVars>>

\* db.run's callback without error: the row is written, the cached snapshot
\* is replaced, the listeners are notified, the promise resolves.
UpdateRunResolved(c) ==
  /\ upd[c].pc = "dbRun"
  /\ dbRow' = <<encrypt(upd[c].newConfig[1])>>
  /\ currentConfig' = upd[c].newConfig
  /\ notified' = notified \o notifyListeners(upd[c].newConfig[1], currentConfig',
                                              upd[c].call)
  /\ messageFilter' = IF \E i \in 1..Len(listeners) : listeners[i] = HotReload
                        THEN HotReloadListener(messageFilter, upd[c].newConfig[1])
                        ELSE messageFilter
  /\ upd' = [upd EXCEPT ![c].pc = "resolved"]
  /\ UNCHANGED <<manualConfirmation, listeners, updCalls, probeVars, pipelineVars>>

\* A db.run callback that swapped the snapshot before it looked at the error.
UpdateRunRejectedAfterSwap(c) ==
  /\ upd[c].pc = "dbRun"
  /\ currentConfig' = upd[c].newConfig
  /\ upd' = [upd EXCEPT ![c].pc = "rejected"]
  /\ UNCHANGED <<manualConfirmation, messageFilter, dbRow, listeners,
                 notified, updCalls, probeVars, pipelineVars>>

\* db.run's callback with an error: the promise rejects, nothing else happens.
UpdateRunRejected(c) ==
  /\ upd[c].pc = "dbRun"
  /\ upd' = [upd EXCEPT ![c].pc = "rejected"]
  /\ UNCHANGED <<manualConfirmation, messageFilter, currentConfig, dbRow, listeners,
                 notified, updCalls, probeVars, pipelineVars>>

\* The caller of updateConfig takes the outcome.
UpdateReturn(c) ==
  /\ upd[c].pc \in {"resolved", "rejected"}
  /\ upd' = [upd EXCEPT ![c] = IdleUpd]
  /\ UNCHANGED <<manualConfirmation, messageFilter, currentConfig, dbRow, listeners,
                 notified, updCalls, probeVars, pipelineVars>>

\* subscribe(listener)
Subscribe(l) ==
  /\ \A i \in 1..Len(listeners) : listeners[i] # l
  /\ listeners' = Append(listeners, l)
  /\ UNCHANGED <<manualConfirmation, messageFilter, currentConfig, dbRow, notified,
                 upd, updCalls, probeVars, pipelineVars>>

UpdateRunNext ==
  \E c \in Callers :
    \/ UpdateRunResolved(c)
    \/ UpdateRunRejected(c)
    \/ UpdateReturn(c)

UpdateNext ==
  \/ \E c \in Callers : UpdateGetResolved(c) \/ UpdateGetRejected(c)
  \/ UpdateRunNext

ManagerNext ==
  \/ \E c \in Callers, u \in ManagerUpdates : UpdateConfig(c, u)
  \/ UpdateNext
  \/ \E l \in 1..MaxListeners : Subscribe(l)

\* The ConfigurationManager taken alone, as its tests drive it.
SpecManager == InitManager /\ [][ManagerNext]_vars

\* ------------------------------------------------------------- PUT /config
\* The route's check of a port or an interval: only an absent value skips it.
RouteInvalidPositive(v) == v # Undefined /\ (TypeOf(v) # "number" \/ v[2] <= 0)

\* validateConfigUpdate(req): the error of the 400 response, or "ok" for next().
validateConfigUpdate(u) ==
  IF RouteInvalidPositive(u.email.imapPort) THEN "Invalid imapPort"
  ELSE IF RouteInvalidPositive(u.email.smtpPort) THEN "Invalid smtpPort"
  ELSE IF u.filters.keywordsEnabled # Undefined
          /\ TypeOf(u.filters.keywordsEnabled) # "boolean"
    THEN "Invalid keywordsEnabled"
  ELSE IF u.filters.keywords # Undefined /\ ~IsArray(u.filters.keywords)
    THEN "Invalid keywords"
  ELSE IF u.filters.excludedDomains # Undefined
          /\ ~IsArray(u.filters.excludedDomains)
    THEN "Invalid excludedDomains"
  ELSE IF u.autoReply.manualConfirmation # Undefined
          /\ TypeOf(u.autoReply.manualConfirmation) # "boolean"
    THEN "Invalid manualConfirmation"
  ELSE IF u.autoReply.replyTemplate # Undefined
          /\ TypeOf(u.autoReply.replyTemplate) # "string"
    THEN "Invalid replyTemplate"
  ELSE IF RouteInvalidPositive(u.autoReply.checkInterval)
    THEN "Invalid checkInterval"
  ELSE "ok"

\* The bodies sent to PUT /config while the application runs.
ReloadUpdates ==
  {Update("filters", "excludedDomains", Arr({2 + NumWords})),
   Update("filters", "keywordsEnabled", Bool(TRUE)),
   Update("filters", "keywords", Arr({1 + NumWords})),
   Update("autoReply", "manualConfirmation", Bool(FALSE)),
   Update("autoReply", "manualConfirmation", Bool(TRUE)),
   Update("autoReply", "checkInterval", Num(0))}

\* PUT /config: the body passes validateConfigUpdate and the handler awaits
\* configManager.updateConfig(req.body).
PutConfig(c, u) ==
  /\ validateConfigUpdate(u) = "ok"
  /\ UpdateConfig(c, u)

ReloadNext ==
  \/ PipelineNext
  \/ \E c \in Callers, u \in ReloadUpdates : PutConfig(c, u)
  \/ UpdateRunNext

\* The running application while its configuration is edited.
SpecReload == Init /\ [][ReloadNext]_vars
\* ---------------------------------------------- MessageFilter on strings
\* An extractDomain that keeps the case of the address.
DomainFilter_extractDomainKeepsCase(emailAddress) ==
  LET atIndex == indexOf(emailAddress, "@")
  IN IF atIndex = 0 THEN <<>>
     ELSE SubSeq(emailAddress, atIndex + 1, Len(emailAddress))

\* DomainFilter.extractDomain(emailAddress)
DomainFilter_extractDomain(emailAddress) ==
  LET atIndex == indexOf(emailAddress, "@")
  IN IF atIndex = 0 THEN <<>>
     ELSE lowerCase(SubSeq(emailAddress, atIndex + 1, Len(emailAddress)))

\* new DomainFilter(excludedDomains) / new KeywordMatcher(keywords): the
\* entries are stored lower-cased.
lowerCaseAll(arr) == [i \in 1..Len(arr) |-> lowerCase(arr[i])]

\* DomainFilter.isExcluded(emailAddress) over the stored entries
DomainFilter_isExcluded(stored, emailAddress) ==
  \E i \in 1..Len(stored) : stored[i] = DomainFilter_extractDomain(emailAddress)

\* KeywordMatcher.findMatches: searchText is `${subject} ${body}` lower-cased.
searchTextOf(subject, body) == lowerCase(subject \o <<" ">> \o body)

\* KeywordMatcher.findMatches(email) over the stored keywords: those of them
\* searchText includes, in the order of the list.
RECURSIVE KeywordMatcher_findMatches(_, _)
KeywordMatcher_findMatches(stored, searchText) ==
  IF stored = <<>> THEN <<>>
  ELSE IF includes(searchText, Head(stored))
    THEN <<Head(stored)>> \o KeywordMatcher_findMatches(Tail(stored), searchText)
  ELSE KeywordMatcher_findMatches(Tail(stored), searchText)

\* A shouldAutoReply that looks for keywords whether or not they are enabled.
MessageFilter_shouldAutoReplyAlwaysMatches(p) ==
  LET domains == lowerCaseAll(p.excludedDomains)
      keywords == lowerCaseAll(p.keywords)
      matched == KeywordMatcher_findMatches(keywords, searchTextOf(p.subject, p.body))
  IN IF DomainFilter_isExcluded(domains, p.from)
       THEN [NoDecision EXCEPT !.reason = "Sender domain is excluded",
                               !.domain = DomainFilter_extractDomain(p.from)]
     ELSE IF Len(matched) > 0
       THEN [NoDecision EXCEPT !.approved = TRUE,
                               !.reason = "Email contains required keywords",
                               !.hasMatched = TRUE,
                               !.matchedKeywords = matched]
     ELSE [NoDecision EXCEPT
             !.reason = "Email does not contain any required keywords"]

\* MessageFilter.shouldAutoReply(email) of new MessageFilter(config), where p
\* carries both the email and the config.
MessageFilter_shouldAutoReply(p) ==
  LET domains == lowerCaseAll(p.excludedDomains)
      keywords == lowerCaseAll(p.keywords)
      matched == KeywordMatcher_findMatches(keywords, searchTextOf(p.subject, p.body))
  IN IF DomainFilter_isExcluded(domains, p.from)
       THEN [NoDecision EXCEPT !.reason = "Sender domain is excluded",
                               !.domain = DomainFilter_extractDomain(p.from)]
     ELSE IF p.keywordsEnabled
       THEN IF Len(matched) > 0
              THEN [NoDecision EXCEPT !.approved = TRUE,
                                      !.reason = "Email contains required keywords",
                                      !.hasMatched = TRUE,
                                      !.matchedKeywords = matched]
              ELSE [NoDecision EXCEPT
                      !.reason = "Email does not contain any required keywords"]
     ELSE [NoDecision EXCEPT !.approved = TRUE,
                             !.reason = "Keyword filtering disabled"]

\* The emails and filter configurations a MessageFilter is tried on.
Probes ==
  [from : StringsUpTo(AddressChars, MaxAddress),
   subject : StringsUpTo(TextChars, MaxText),
   body : StringsUpTo(TextChars, MaxText),
   keywordsEnabled : BOOLEAN,
   keywords : ArraysUpTo(StringsUpTo(TextChars, MaxKeyword), MaxEntries),
   excludedDomains : ArraysUpTo(StringsUpTo(AddressChars, MaxDomain), MaxEntries)]

\* A MessageFilter is built from some configuration and handed some email.
InitFilter ==
  /\ manualConfirmation = TRUE
  /\ messageFilter = NewMessageFilter(FALSE, {}, {})
  /\ PipelineInit
  /\ currentConfig = <<>>
  /\ dbRow = <<>>
  /\ listeners = <<>>
  /\ notified = <<>>
  /\ upd = [c \in Callers |-> IdleUpd]
  /\ updCalls = 0
  /\ probe \in Probes
  /\ decision = NoDecision
  /\ given = NoneGiven
  /\ returned = NoneReturned

\* messageFilter.shouldAutoReply(email) is called and returns.
ShouldAutoReply ==
  /\ decision = NoDecision
  /\ decision' = MessageFilter_shouldAutoReply(probe)
  /\ UNCHANGED <<manualConfirmation, messageFilter, managerVars, probe, given,
                 returned, pipelineVars>>

FilterNext == ShouldAutoReply

\* The MessageFilter taken alone, as its tests drive it.
SpecFilter == InitFilter /\ [][FilterNext]_vars

\* ------------------------------------------- AutoResponder.generateReply
\* In a template and in the texts put into it a placeholder such as
\* "{sender}" is one item of the sequence, as a character is.

\* text.replace(/\{name\}/g, value): every occurrence is replaced.
RECURSIVE replaceAll(_, _, _)
replaceAll(text, placeholder, value) ==
  IF text = <<>> THEN <<>>
  ELSE (IF Head(text) = placeholder THEN value ELSE <<Head(text)>>)
         \o replaceAll(Tail(text), placeholder, value)

\* AutoResponderImpl.renderTemplate(email): three replacements, one after the
\* other, each over the result of the one before.
renderTemplate(g) ==
  replaceAll(replaceAll(replaceAll(g.replyTemplate, "{sender}", g.from),
                        "{subject}", g.subject),
             "{body}", g.body)

\* AutoResponderImpl.generateReply(email) on strings.
AutoResponder_generateReply(g) ==
  [originalEmailId |-> g.id,
   to |-> g.from,
   subject |-> <<"R", "e", ":", " ">> \o g.subject,
   body |-> renderTemplate(g),
   status |-> GenerateStatus(g.manualConfirmation)]

\* The emails and configurations generateReply is tried on.  An email that
\* checkInbox builds has a sender (EmailMonitor.ts:178).
Givens ==
  [id : {"e1", "e2"},
   from : StringsUpTo({"a", "@"}, MaxFrom) \ {<<>>},
   subject : StringsUpTo({"a", "{body}"}, MaxText),
   body : StringsUpTo({"a"}, MaxText),
   replyTemplate : StringsUpTo({"a", "{sender}", "{subject}", "{body}"}, MaxTemplate),
   manualConfirmation : BOOLEAN]

\* An AutoResponderImpl is built from some configuration and handed some email.
InitReply ==
  /\ manualConfirmation = TRUE
  /\ messageFilter = NewMessageFilter(FALSE, {}, {})
  /\ PipelineInit
  /\ currentConfig = <<>>
  /\ dbRow = <<>>
  /\ listeners = <<>>
  /\ notified = <<>>
  /\ upd = [c \in Callers |-> IdleUpd]
  /\ updCalls = 0
  /\ probe = NoProbe
  /\ decision = NoDecision
  /\ given \in Givens
  /\ returned = NoneReturned

\* autoResponder.generateReply(email) is called and returns.
GenerateReply ==
  /\ returned = NoneReturned
  /\ returned' = AutoResponder_generateReply(given)
  /\ UNCHANGED <<manualConfirmation, messageFilter, managerVars, probe, decision,
                 given, pipelineVars>>

ReplyNext == GenerateReply

\* generateReply taken alone, as its tests drive it.
SpecReply == InitReply /\ [][ReplyNext]_vars

\* ------------------------------------------------------------------ claims

Terminal == {"sent", "rejected", "failed"}
Generated == 1..Len(replies)

\* The request in slot p is inside processConfirmation(r, true), past the lookup.
InApprove(p, r) ==
  /\ conf[p].pc \in {"sendMail", "saveSent", "saveFailed", "markRead"}
  /\ conf[p].approved
  /\ conf[p].replyId = r

RECURSIVE SumOver(_, _)
SumOver(S, f) ==
  IF S = {} THEN 0
  ELSE LET x == CHOOSE y \in S : TRUE IN f[x] + SumOver(S \ {x}, f)

\* Replies successfully delivered for email e.
DeliveredFor(e) ==
  SumOver({r \in Generated : replies[r].originalEmailId = e},
          [r \in ReplyIds |-> smtp[r].delivered])

\* Log entries of a type written for reply r.
LogsOf(type, r) ==
  LET hit == {l \in BagToSet(logs) : l.type = type /\ l.replyId = r}
  IN SumOver(hit, [l \in hit |-> CopiesIn(l, logs)])

\* C1: while one processConfirmation(id, true) is suspended in its send or
\* mark-as-read step, a second processConfirmation(id, true) for the same id
\* gets no further than the lookup (it fails with not-found), so the send
\* transport is invoked once for the reply.
C1_OverlappingApproveSendsOnce ==
  \A p, q \in Procs : \A r \in ReplyIds :
    (p # q /\ InApprove(p, r)) => (~InApprove(q, r) /\ smtp[r].invoked <= 1)

\* C2: no original email ever has more than one reply successfully sent for it.
C2_AtMostOneReplySentPerEmail ==
  \A e \in Emails : DeliveredFor(e) <= 1

\* C3: once a reply has reached sent, failed or rejected and the operation
\* that took it there has finished, the email named by reply.originalEmailId
\* is marked read.
C3_TerminalReplyEmailMarkedRead ==
  \A r \in Generated :
    (/\ replies[r].status \in Terminal
     /\ poll.reply # r
     /\ \A p \in Procs : conf[p].replyId # r)
    => seen[replies[r].originalEmailId]

\* C4: a reply's status moves only along pending->approved, pending->rejected,
\* approved->sent and approved->failed, and once it is sent, rejected or
\* failed neither its status nor its sentAt changes again.
AllowedTransitions ==
  {<<"pending", "approved">>, <<"pending", "rejected">>,
   <<"approved", "sent">>, <<"approved", "failed">>}

C4_StatusTransitions ==
  [][\A r \in Generated :
       /\ (replies'[r].status # replies[r].status
             => <<replies[r].status, replies'[r].status>> \in AllowedTransitions)
       /\ (replies[r].status \in Terminal => replies'[r] = replies[r])]_vars

\* C5: under manual confirmation a generated reply that no processConfirmation
\* has found yet is in the pending set with status pending and no sentAt; the
\* send transport is invoked for a reply only once processConfirmation(id, true)
\* has found it.
C5_ManualModeHoldsUntilApproved ==
  manualConfirmation =>
    \A r \in Generated :
      /\ smtp[r].invoked > 0 => r \in approveFound
      /\ r \notin (approveFound \cup rejectFound) =>
           /\ r \in pendingReplies
           /\ replies[r].status = "pending"
           /\ replies[r].sentAt = 0
           /\ smtp[r].invoked = 0

\* One reply still waits in the pending set while another was approved and delivered.
C5_Witness ==
  /\ manualConfirmation
  /\ \E r, q \in Generated :
       /\ r \notin (approveFound \cup rejectFound)
       /\ r \in pendingReplies
       /\ q \in approveFound
       /\ smtp[q].delivered = 1

ConfirmationEffects == <<pendingReplies, replies, seen, markCalls, smtp, logs>>

\* C7: a processConfirmation whose replyId is not in the pending set fails
\* with the not-found error, and neither the lookup nor the throw changes the
\* pending set, any reply, the read flags or the send transport.
C7_NotFoundChangesNothing ==
  [][\A p \in Procs :
       /\ (conf[p].pc = "idle" /\ conf'[p].pc # "idle"
             /\ conf'[p].replyId \notin pendingReplies)
            => (conf'[p].pc = "notFound" /\ UNCHANGED ConfirmationEffects)
       /\ (conf[p].pc = "notFound" /\ conf'[p] # conf[p])
            => (conf'[p] = IdleConf /\ UNCHANGED ConfirmationEffects)]_vars

\* Two requests are failing: one for an id never queued, one for a reply an
\* earlier, completed call resolved.
C7_Witness ==
  \E p, q \in Procs :
    /\ conf[p].pc = "notFound" /\ conf[p].replyId \notin Generated
    /\ conf[q].pc = "notFound" /\ conf[q].replyId \in rejectReturned
    /\ conf[q].replyId \notin pendingReplies

\* C8: without manual confirmation every generated reply starts as approved
\* and its send is invoked in the step that generates it, inside the running
\* poll cycle; nothing is ever queued; and when sendReply returns, sent or
\* failed, processEmail calls markAsRead for that email.
C8_AutoModeSendsThenMarksRead ==
  [][~manualConfirmation =>
       /\ \A r \in 1..Len(replies') :
            r > Len(replies) =>
              /\ replies'[r].status = "approved"
              /\ smtp'[r].invoked = 1
              /\ poll'.pc = "sendMail" /\ poll'.reply = r
              /\ poll'.email = replies'[r].originalEmailId
              /\ cycles' = cycles
       /\ pendingReplies' = {}
       /\ (poll.pc = "sendMail" /\ poll' # poll) =>
            (poll'.pc \in {"saveSent", "saveFailed"} /\ poll'.reply = poll.reply)
       /\ (poll.pc \in {"saveSent", "saveFailed"} /\ poll' # poll) =>
            /\ poll'.pc = "markRead"
            /\ poll'.email = poll.email
            /\ markCalls'[poll.email] = markCalls[poll.email] + 1]_vars

\* In auto mode, after stop() was requested, markAsRead is awaited for an
\* email whose reply failed to send.
C8_Witness ==
  /\ ~manualConfirmation
  /\ shouldStop
  /\ poll.pc = "markRead"
  /\ poll.reply # 0
  /\ replies[poll.reply].status = "failed"
  /\ markCalls[poll.email] > 0

\* Callers of sendReply(r) suspended at position pc.
CallersAt(pc, r) ==
  Cardinality({p \in Procs : conf[p].pc = pc /\ conf[p].replyId = r})
    + (IF poll.pc = pc /\ poll.reply = r THEN 1 ELSE 0)

\* C9: a failing transport sets the reply to failed and sendReply goes on to
\* return (nothing is thrown); each failed send yields exactly one reply_failed
\* log, with emailId = reply.originalEmailId and replyId = reply.id; the poll
\* cycle then marks the email and goes on with the next email of the batch.
C9_FailedSendLoggedOnceBatchContinues ==
  [][/\ \A r \in ReplyIds :
          /\ smtp'[r].failed # smtp[r].failed =>
               /\ smtp'[r].failed = smtp[r].failed + 1
               /\ replies'[r].status = "failed"
               /\ CallersAt("saveFailed", r)' = CallersAt("saveFailed", r) + 1
          /\ LogsOf("reply_failed", r)' + CallersAt("saveFailed", r)'
               = smtp'[r].failed
     /\ \A l \in BagToSet(logs') :
          l.type = "reply_failed" =>
            /\ l.replyId \in 1..Len(replies')
            /\ l.emailId = replies'[l.replyId].originalEmailId
     /\ (poll.pc = "saveFailed" /\ poll' # poll) =>
          (poll'.pc = "markRead" /\ poll'.batch = poll.batch)
     /\ (poll.pc = "markRead" /\ poll.reply # 0 /\ poll' # poll
           /\ poll.batch # <<>>) =>
          (poll'.pc \in {"markRead", "sendMail"} /\ poll'.email = Head(poll.batch))]_vars

\* The first email's send failed and was logged; the cycle is sending the
\* reply to the next email.
C9_Witness ==
  /\ poll.pc = "sendMail"
  /\ poll.reply = 2
  /\ cycles = 1
  /\ replies[1].status = "failed"
  /\ LogsOf("reply_failed", 1) = 1
  /\ replies[1].originalEmailId = 1 /\ replies[2].originalEmailId = 2

\* C10: a successful transport send sets the reply to sent with sentAt set;
\* each one yields exactly one reply_sent log with emailId =
\* reply.originalEmailId, replyId = reply.id and recipient = reply.to, so the
\* reply_sent logs number the successful sends whose sendReply has returned.
C10_SentLoggedOnce ==
  [][/\ \A r \in ReplyIds :
          /\ smtp'[r].delivered # smtp[r].delivered =>
               /\ smtp'[r].delivered = smtp[r].delivered + 1
               /\ replies'[r].status = "sent"
               /\ replies'[r].sentAt = clock' /\ clock' > 0
               /\ CallersAt("saveSent", r)' = CallersAt("saveSent", r) + 1
          /\ LogsOf("reply_sent", r)' + CallersAt("saveSent", r)'
               = smtp'[r].delivered
     /\ \A l \in BagToSet(logs') :
          l.type = "reply_sent" =>
            /\ l.replyId \in 1..Len(replies')
            /\ l.emailId = replies'[l.replyId].originalEmailId
            /\ l.recipient = replies'[l.replyId].to
            /\ l.timestamp > 0]_vars

\* Two replies were delivered and every sendReply has returned: two logs.
C10_Witness ==
  /\ \A r \in ReplyIds : smtp[r].delivered = 1 /\ LogsOf("reply_sent", r) = 1
  /\ \A r \in ReplyIds : CallersAt("saveSent", r) = 0

\* C11: at most one poll cycle is in flight: a cycle begins only when none is
\* running; a timer tick that finds one running begins no cycle and changes
\* nothing of the monitor; and the step that ends a cycle begins no other (no
\* tick was kept to run later).
C11_OnePollCycleAtATime ==
  [][/\ (isProcessing' <=> poll'.pc # "idle")
     /\ cycles' # cycles =>
          /\ ~isProcessing /\ poll.pc = "idle"
          /\ cycles' = cycles + 1
          /\ isProcessing' /\ poll'.pc = "checkInbox"
     /\ tickSkipped' # tickSkipped =>
          /\ isProcessing
          /\ UNCHANGED <<cycles, poll, isProcessing, isRunning, shouldStop,
                         intervalId, consecutiveFailures, logs>>
     /\ (isProcessing /\ ~isProcessing') =>
          (cycles' = cycles /\ poll'.pc = "idle")]_vars

\* A tick has been skipped and the cycle it found running is still sending.
C11_Witness ==
  /\ tickSkipped
  /\ isProcessing
  /\ intervalId
  /\ poll.pc = "sendMail"
  /\ cycles = 1

\* C12: a stop() that finds a cycle in flight does not return (isRunning stays
\* set) before the cycle has ended, and the email inside processEmail leaves
\* it only through the outcome of its markAsRead call; from the call of stop()
\* until a later start() no poll cycle begins.
C12_StopWaitsForCurrentEmail ==
  [][/\ stopPc' = "waiting" => (isRunning' /\ shouldStop' /\ ~intervalId')
     /\ (isRunning /\ ~isRunning') =>
          (~isProcessing /\ poll.pc = "idle" /\ shouldStop' /\ UNCHANGED poll)
     /\ (poll.email # 0 /\ poll'.email # poll.email) =>
          /\ poll.pc = "markRead"
          /\ seen'[poll.email] \/ markFailures' = markFailures + 1
     /\ cycles' # cycles => (~shouldStop' /\ (~shouldStop \/ ~isRunning))
     /\ (shouldStop /\ shouldStop') => cycles' = cycles]_vars

\* stop() was called while email 1 was inside processEmail; it has returned,
\* email 1 is marked read and no cycle is running.
C12_Witness ==
  /\ ~isRunning
  /\ shouldStop
  /\ stopPc = "idle"
  /\ seen[1]
  /\ markCalls[1] = 1
  /\ markCalls[2] = 0
  /\ abandoned = {2}
  /\ poll.pc = "idle"

\* C13: when stop() has returned, every email a cycle's checkInbox returned
\* has been run through processEmail: the for loop left none behind.
C13_StopLetsBatchFinish ==
  ~isRunning => abandoned = {}

\* Error entries the monitor has logged with the given details.
ErrorLogs(details) ==
  LET hit == {l \in BagToSet(logs) : l.type = "error" /\ l.recipient = details}
  IN SumOver(hit, [l \in hit |-> CopiesIn(l, logs)])

\* C14: a failing checkInbox leaves the monitor running with its timer armed
\* and no cycle in flight, so that the next tick begins a cycle; each failure
\* adds one error entry (the fifth consecutive one and those after it also the
\* maximum-failures entry); each failure is a cycle of its own, and the
\* success after N failures, in cycle N+1 or later, resets the counter.
C14_FailuresNeverStopTheLoop ==
  [][/\ consecutiveFailures' # consecutiveFailures =>
          \/ consecutiveFailures' = 0
          \/ /\ consecutiveFailures' = consecutiveFailures + 1
             /\ poll.pc = "checkInbox"
             /\ UNCHANGED <<isRunning, intervalId, shouldStop, cycles>>
             /\ ~isProcessing'
             /\ ErrorLogs("check inbox failed")'
                  = ErrorLogs("check inbox failed") + 1
             /\ ErrorLogs("max consecutive failures")'
                  = ErrorLogs("max consecutive failures")
                      + (IF consecutiveFailures' >= MAX_CONSECUTIVE_FAILURES
                           THEN 1 ELSE 0)
     /\ (consecutiveFailures' > 0 /\ ~shouldStop') =>
          (isRunning' /\ intervalId')
     /\ cycles' >= consecutiveFailures' + (IF isProcessing' THEN 1 ELSE 0)
     /\ (poll.pc = "checkInbox" /\ poll' # poll
           /\ consecutiveFailures' # consecutiveFailures + 1) =>
          (consecutiveFailures' = 0 /\ cycles > consecutiveFailures)]_vars

\* Five cycles in a row failed, each logged, the alert entry was written, and
\* the sixth cycle succeeded: the monitor is running with the counter reset.
C14_Witness ==
  /\ cycles = MAX_CONSECUTIVE_FAILURES + 1
  /\ consecutiveFailures = 0
  /\ ErrorLogs("check inbox failed") = MAX_CONSECUTIVE_FAILURES
  /\ ErrorLogs("max consecutive failures") = 1
  /\ isRunning /\ intervalId /\ ~shouldStop
  /\ poll.pc # "checkInbox"

\* Entries the monitor has logged with the given details, of type email_filtered.
InfoLogs(details) ==
  LET hit == {l \in BagToSet(logs) :
                l.type = "email_filtered" /\ l.emailId = 0 /\ l.recipient = details}
  IN SumOver(hit, [l \in hit |-> CopiesIn(l, logs)])

\* C15: start() on a running monitor, one whose stop() is waiting included,
\* throws and leaves the monitor as it was: no step taken while isRunning is
\* set logs a start, re-arms the timer or clears the stop flag, and the
\* throwing call changes nothing at all.
C15_StartWhileRunningFails ==
  [][/\ isRunning =>
          /\ InfoLogs("started")' = InfoLogs("started")
          /\ intervalId' => intervalId
          /\ shouldStop => shouldStop'
     /\ startPc' # startPc =>
          UNCHANGED <<isRunning, isProcessing, shouldStop, intervalId,
                      consecutiveFailures, poll, stopPc, cycles, logs>>
     /\ (startPc = "idle" /\ startPc' = "thrown") => isRunning]_vars

\* start() has thrown while stop() waits for the cycle in flight, after a
\* failed cycle: timer cleared, stop flag set, counter at 1.
C15_Witness ==
  /\ startPc = "thrown"
  /\ stopPc = "waiting"
  /\ isRunning /\ shouldStop /\ ~intervalId
  /\ consecutiveFailures = 1
  /\ InfoLogs("started") = 1

\* A port or an interval an update may not carry: present, and not a
\* positive number.
NotPositiveNumber(v) == v # Undefined /\ (TypeOf(v) # "number" \/ v[2] <= 0)

\* C20: updateConfig rejects every update in which imapPort, smtpPort or
\* checkInterval is a non-positive number (zero included) or is not a number:
\* a call made with such an update is never anywhere but at its rejection.
C20_RejectsNonPositiveAndNonNumbers ==
  \A c \in Callers :
    (/\ upd[c].pc # "idle"
     /\ \/ NotPositiveNumber(upd[c].updates.email.imapPort)
        \/ NotPositiveNumber(upd[c].updates.email.smtpPort)
        \/ NotPositiveNumber(upd[c].updates.autoReply.checkInterval))
      => upd[c].pc = "rejected"

\* C19: a rejected updateConfig (validateConfig throws, or db.get or db.run
\* reports an error) leaves what getConfig returns unchanged and notifies no
\* listener: only the step that resolves an updateConfig changes what getConfig
\* returns or invokes a listener, and no invocation belongs to a rejected call.
C19_RejectedUpdateChangesNothing ==
  [][/\ (getConfig' # getConfig \/ notified' # notified)
          => \E c \in Callers : upd[c].pc = "dbRun" /\ upd'[c].pc = "resolved"
     /\ \A c \in Callers :
          upd'[c].pc = "rejected"
            => \A i \in 1..Len(notified') : notified'[i].call # upd'[c].call]_vars

\* A call rejected by db.run, with a listener subscribed, after an earlier
\* call succeeded: getConfig still returns what the earlier call stored.
C19_Witness ==
  /\ Len(listeners) > 0
  /\ Len(notified) > 0
  /\ \E c \in Callers :
       /\ upd[c].pc = "rejected"
       /\ upd[c].newConfig # <<>>
       /\ upd[c].newConfig[1] # getConfig

\* C16: when updateConfig succeeds, the cached snapshot is replaced first, then
\* every subscribed listener is invoked, in subscription order, with the new
\* configuration, all in the step that resolves the call; getConfig then
\* returns the new values.
C16_SwapThenNotifyInOrder ==
  [][\A c \in Callers :
       (upd[c].pc = "dbRun" /\ upd'[c].pc = "resolved")
         => /\ currentConfig' = upd[c].newConfig
            /\ getConfig' = upd[c].newConfig[1]
            /\ Len(notified') = Len(notified) + Len(listeners)
            /\ SubSeq(notified', 1, Len(notified)) = notified
            /\ \A i \in 1..Len(listeners) :
                 notified'[Len(notified) + i] =
                   [call |-> upd[c].call, listener |-> listeners[i],
                    config |-> upd[c].newConfig[1], cached |-> upd[c].newConfig]]_vars

\* A call has just resolved with listener 2 subscribed before listener 1:
\* both were invoked, 2 first, with the snapshot that differs from the default
\* and that getConfig now returns.
C16_Witness ==
  /\ listeners = <<2, 1>>
  /\ Len(notified) = 2
  /\ notified[1].listener = 2
  /\ notified[2].listener = 1
  /\ \E c \in Callers :
       /\ upd[c].pc = "resolved"
       /\ notified[2].call = upd[c].call
       /\ notified[2].config = getConfig
       /\ getConfig # DefaultConfig

\* The filter a MessageFilter built from the snapshot in force would be.
ConfiguredFilter ==
  NewMessageFilter(Truthy(currentConfig[1].filters.keywordsEnabled),
                   currentConfig[1].filters.keywords[2],
                   currentConfig[1].filters.excludedDomains[2])

\* The email_filtered entries that report email e as filtered out.
FilteredOut(e) ==
  LET hit == {l \in BagToSet(logs) : l.type = "email_filtered" /\ l.emailId = e
                                       /\ l.replyId = 0}
  IN SumOver(hit, [l \in hit |-> CopiesIn(l, logs)])

\* C17: in the running application every shouldAutoReply evaluation decides
\* with the filters of the last updateConfig that has returned, the evaluation
\* for the next email of a batch in progress included: an email is reported as
\* filtered out only if the snapshot in force refuses it, and a reply is
\* generated for an email only if the snapshot in force admits it.
C17_FilterFollowsConfig ==
  [][\A e \in Emails :
       /\ FilteredOut(e)' > FilteredOut(e) => ~Decision(ConfiguredFilter, e)
       /\ (\E r \in (Len(replies) + 1)..Len(replies') :
             replies'[r].originalEmailId = e) => Decision(ConfiguredFilter, e)]_vars

\* One cycle, one update: email 1 got its reply, then an update that turns
\* keyword filtering on with no keyword (which refuses every email) returned
\* while the batch was in progress, and email 2 was filtered out in that cycle.
C17_Witness ==
  /\ cycles = 1
  /\ messageFilter = NewMessageFilter(TRUE, {}, {})
  /\ Len(notified) = 1
  /\ \A c \in Callers : upd[c].pc = "idle"
  /\ Len(replies) = 1
  /\ replies[1].originalEmailId = 1
  /\ FilteredOut(2) = 1
  /\ FilteredOut(1) = 0

\* C18: in the running application the components use the autoReply values of
\* the last updateConfig that has returned: the next generateReply takes its
\* status from the confirmation mode of the snapshot in force, pending when
\* manual confirmation is on and approved when it is off (stated for the
\* replies generated while no updateConfig call is in flight).
C18_ReplyFollowsConfirmationMode ==
  [][(\A c \in Callers : upd[c].pc = "idle")
       => \A r \in (Len(replies) + 1)..Len(replies') :
            (replies'[r].status = "pending")
              <=> Truthy(currentConfig[1].autoReply.manualConfirmation)]_vars

\* Two strings are equal when case is ignored.
EqualsIgnoreCase(a, b) ==
  /\ Len(a) = Len(b)
  /\ \A i \in 1..Len(a) : a[i] = b[i] \/ {a[i], b[i]} = {"a", "A"}

\* d is the text after the first '@' of address (empty when there is no '@').
IsTextAfterFirstAt(d, address) ==
  \/ (\A i \in 1..Len(address) : address[i] # "@") /\ d = <<>>
  \/ \E i \in 1..Len(address) :
       /\ address[i] = "@"
       /\ \A j \in 1..(i - 1) : address[j] # "@"
       /\ Len(d) = Len(address) - i
       /\ \A k \in 1..Len(d) : d[k] = address[i + k]

\* The sender's domain equals some excludedDomains entry, case ignored.
SenderExcluded(p) ==
  \E d \in StringsUpTo(AddressChars, MaxAddress) :
    /\ IsTextAfterFirstAt(d, p.from)
    /\ \E i \in 1..Len(p.excludedDomains) : EqualsIgnoreCase(d, p.excludedDomains[i])

\* C21: shouldAutoReply rejects with the excluded-domain reason if and only
\* if the text after the first '@' of the sender address equals some
\* excludedDomains entry when case is ignored, whatever keywordsEnabled is and
\* whether or not a keyword matches; the reason names the lower-cased domain.
C21_ExcludedDomainIffDomainListed ==
  decision # NoDecision
    => /\ (~decision.approved /\ decision.reason = "Sender domain is excluded")
            <=> SenderExcluded(probe)
       /\ SenderExcluded(probe)
            => /\ decision.domain = lowerCase(decision.domain)
               /\ IsTextAfterFirstAt(decision.domain, lowerCase(probe.from))

\* The sender a@A is refused for the entry "a" although keyword filtering is
\* on and the keyword occurs in the subject.
C21_Witness ==
  /\ probe.from = <<"a", "@", "A">>
  /\ probe.excludedDomains = <<(<<"a">>)>>
  /\ probe.keywordsEnabled
  /\ probe.keywords = <<(<<"a">>)>>
  /\ probe.subject = <<"a">>
  /\ ~decision.approved
  /\ decision.reason = "Sender domain is excluded"
  /\ decision.domain = <<"a">>

\* k occurs in text when case is ignored.
OccursIgnoringCase(k, text) ==
  \E i \in 0..(Len(text) - Len(k)) :
    EqualsIgnoreCase(SubSeq(text, i + 1, i + Len(k)), k)

\* The configured keywords that occur in the subject or in the body of p.
KeywordsInSubjectOrBody(p) ==
  {i \in 1..Len(p.keywords) :
     OccursIgnoringCase(p.keywords[i], p.subject)
       \/ OccursIgnoringCase(p.keywords[i], p.body)}

\* C22: with keywordsEnabled = true and a sender that is not excluded, the
\* email is approved if and only if some configured keyword occurs, case
\* ignored, in the subject or in the body, and the keywords reported as
\* matched are exactly those that do.
C22_MatchedIffInSubjectOrBody ==
  (decision # NoDecision /\ probe.keywordsEnabled /\ ~SenderExcluded(probe))
    => /\ decision.approved <=> KeywordsInSubjectOrBody(probe) # {}
       /\ {decision.matchedKeywords[i] : i \in 1..Len(decision.matchedKeywords)}
            = {lowerCase(probe.keywords[i]) : i \in KeywordsInSubjectOrBody(probe)}

\* C23: with keywordsEnabled = false, shouldAutoReply approves every email
\* whose sender domain is not excluded, whatever its subject, its body and the
\* configured keywords are, and the decision carries no matchedKeywords.
C23_DisabledKeywordsApproveAll ==
  (decision # NoDecision /\ ~probe.keywordsEnabled /\ ~SenderExcluded(probe))
    => /\ decision.approved
       /\ ~decision.hasMatched
       /\ decision.matchedKeywords = <<>>

\* Keyword filtering is off, the keyword "a a" is configured and the text
\* holds no "a" at all; the sender a@A is not on the list, which holds "@".
C23_Witness ==
  /\ ~probe.keywordsEnabled
  /\ probe.keywords = <<(<<"a", " ", "a">>)>>
  /\ probe.subject = <<>>
  /\ probe.body = <<" ">>
  /\ probe.from = <<"a", "@", "A">>
  /\ probe.excludedDomains = <<(<<"@">>)>>
  /\ decision.approved
  /\ decision.reason = "Keyword filtering disabled"

\* C24: for any email handed to it, generateReply returns a reply with
\* non-empty to, subject and body, with originalEmailId = email.id,
\* to = email.from and subject = "Re: " followed by the email's subject.
C24_ReplyIsComplete ==
  returned # NoneReturned
    => /\ returned.to # <<>>
       /\ returned.subject # <<>>
       /\ returned.body # <<>>
       /\ returned.originalEmailId = given.id
       /\ returned.to = given.from
       /\ returned.subject = <<"R", "e", ":", " ">> \o given.subject

\* C25: a processConfirmation call that has found its reply invokes
\* markAsRead(reply.originalEmailId) exactly once: on entering its markRead
\* step, which an approval enters only from the end of sendReply and a
\* rejection enters at once, and which is the only step the call returns from;
\* the reply leaves the pending set only in the step that ends markRead.
C25_MarkReadOnceAfterSendBeforeRemoval ==
  [][/\ \A p \in Procs :
          conf'[p] # conf[p]
            => /\ (conf'[p].pc = "markRead")
                    => /\ conf[p].pc \in {"idle", "saveSent", "saveFailed"}
                       /\ conf[p].pc = "idle" <=> ~conf'[p].approved
                       /\ markCalls' =
                            [markCalls EXCEPT
                               ![replies'[conf'[p].replyId].originalEmailId] = @ + 1]
               /\ (conf'[p].pc # "markRead") => markCalls' = markCalls
               /\ (conf[p].pc \in {"sendMail", "saveSent", "saveFailed"})
                    => conf'[p].pc # "idle"
     /\ \A r \in pendingReplies \ pendingReplies' :
          \E p \in Procs :
            /\ conf[p].pc = "markRead"
            /\ conf[p].replyId = r
            /\ conf'[p].pc = "idle"
            /\ markCalls[replies[r].originalEmailId] >= 1]_vars

\* An approval whose send was delivered sits in markAsRead: one invocation for
\* its email so far, the reply still in the pending set.
C25_Witness ==
  \E p \in Procs :
    /\ conf[p].pc = "markRead"
    /\ conf[p].approved
    /\ smtp[conf[p].replyId].delivered = 1
    /\ markCalls[replies[conf[p].replyId].originalEmailId] = 1
    /\ conf[p].replyId \in pendingReplies
    /\ replies[conf[p].replyId].status = "sent"

\* C26: for an email the filter refuses, processEmail generates no reply and
\* does not invoke the send transport, emits one email_filtered entry that
\* carries the reason of the refusal, and invokes markAsRead for the email,
\* which is read once that call resolves.
C26_RefusedEmailOnlyLoggedAndMarked ==
  [][\A e \in Emails :
       /\ (poll' # poll /\ poll'.pc = "markRead" /\ poll'.reply = 0 /\ poll'.email = e)
            => /\ ~shouldAutoReply(e)
               /\ \A r \in 1..Len(replies') : replies'[r].originalEmailId # e
               /\ smtp' = smtp
               /\ markCalls'[e] = markCalls[e] + 1
               /\ \E reason \in {"Email filtered out: Sender domain is excluded",
                                 "Email filtered out: Email does not contain any required keywords"} :
                    /\ (reason = "Email filtered out: Sender domain is excluded")
                          <=> (toLowerCase(SenderDomain(e)) \in messageFilter.excludedDomains)
                    /\ CopiesIn(MonitorLog("email_filtered", e, 0, reason), logs')
                         = CopiesIn(MonitorLog("email_filtered", e, 0, reason), logs) + 1
               /\ FilteredOut(e)' = FilteredOut(e) + 1
       /\ (poll' # poll /\ poll.pc = "markRead" /\ poll.reply = 0 /\ poll.email = e
             /\ markFailures' = markFailures)
            => seen'[e]]_vars

\* Email 1, whose domain is excluded, has been refused: one entry with the
\* excluded-domain reason, one markAsRead in flight, no reply, nothing sent.
C26_Witness ==
  /\ poll.pc = "markRead"
  /\ poll.reply = 0
  /\ poll.email = 1
  /\ messageFilter.excludedDomains = {1}
  /\ CopiesIn(MonitorLog("email_filtered", 1, 0,
                         "Email filtered out: Sender domain is excluded"), logs) = 1
  /\ markCalls[1] = 1
  /\ ~seen[1]
  /\ replies = <<>>
  /\ \A r \in ReplyIds : smtp[r].invoked = 0

\* C27: in manual-confirmation mode processEmail queues the reply it generated
\* (status pending, one "queued" entry) and leaves the email alone: markAsRead
\* is not invoked for it and its read flag does not change.  For an email the
\* filter approves, markAsRead is invoked only by a processConfirmation of its
\* queued reply, after the reply was approved (and the send attempted) or
\* rejected.
C27_ManualModeMarksReadOnlyOnConfirmation ==
  [][\A e \in Emails :
       /\ \A r \in pendingReplies' \ pendingReplies :
            replies'[r].originalEmailId = e
              => /\ manualConfirmation
                 /\ r > Len(replies)
                 /\ replies'[r].status = "pending"
                 /\ markCalls'[e] = markCalls[e]
                 /\ seen'[e] = seen[e]
                 /\ ~(poll'.pc = "markRead" /\ poll'.email = e)
                 /\ CopiesIn(MonitorLog("email_filtered", e, r, "queued"), logs')
                      = CopiesIn(MonitorLog("email_filtered", e, r, "queued"), logs) + 1
       /\ (manualConfirmation /\ shouldAutoReply(e) /\ markCalls'[e] # markCalls[e])
            => /\ markCalls'[e] = markCalls[e] + 1
               /\ poll' = poll
               /\ \E p \in Procs :
                    /\ conf[p].pc # "markRead"
                    /\ conf'[p].pc = "markRead"
                    /\ replies[conf'[p].replyId].originalEmailId = e
                    /\ replies'[conf'[p].replyId].status # "pending"
                    /\ conf'[p].approved
                         => smtp[conf'[p].replyId].delivered
                              + smtp[conf'[p].replyId].failed > 0]_vars

\* The batch queued a reply for each of the two emails and marked neither
\* read; the first reply was then rejected through the API, whose
\* processConfirmation is awaiting the only markAsRead so far.
C27_Witness ==
  /\ manualConfirmation
  /\ poll.pc = "idle"
  /\ Len(replies) = 2
  /\ replies[1].originalEmailId = 1 /\ replies[1].status = "rejected"
  /\ replies[2].originalEmailId = 2 /\ replies[2].status = "pending"
  /\ conf[1].pc = "markRead" /\ conf[1].replyId = 1
  /\ markCalls[1] = 1 /\ markCalls[2] = 0
  /\ ~seen[1] /\ ~seen[2]
  /\ pendingReplies = {1, 2}

\* The emails pollInbox's for loop has before it when the step begins.
LoopBatch == IF poll.pc = "checkInbox" THEN Unseen(NumEmails) ELSE poll.batch

\* C28: when a step of processEmail raises for an email (its catch block
\* runs), the error does not leave processEmail, exactly one error entry with
\* the email's id is logged, and every later email of the batch is still
\* processed: it is the email the loop awaits next, it is still before the
\* running loop, a reply was generated for it, or its own catch block ran.
C28_ProcessEmailErrorsStayInside ==
  [][\A e \in Emails :
       raised'[e] # raised[e]
         => /\ raised'[e] = raised[e] + 1
            /\ poll'.pc # "escaped"
            /\ CopiesIn(ProcessErrorLog(e), logs')
                 = CopiesIn(ProcessErrorLog(e), logs) + 1
            /\ \A i \in 1..Len(LoopBatch) :
                 LoopBatch[i] > e
                   => \/ poll'.pc \in {"markRead", "sendMail"}
                         /\ \/ poll'.email = LoopBatch[i]
                            \/ \E j \in 1..Len(poll'.batch) :
                                 poll'.batch[j] = LoopBatch[i]
                      \/ \E r \in (Len(replies) + 1)..Len(replies') :
                           replies'[r].originalEmailId = LoopBatch[i]
                      \/ raised'[LoopBatch[i]] > raised[LoopBatch[i]]]_vars

\* C29: the consecutive-failure counter equals the number of checkInbox calls
\* that have failed since the last one that succeeded, or since start(): a
\* failed cycle adds one to both, a successful one returns both to 0.
C29_CounterCountsFailedChecks == consecutiveFailures = failedChecks

\* C30: the "maximum consecutive failures" entry is written only by a cycle
\* whose checkInbox failed as the fifth, or a later, failure in a row, once
\* per such cycle and together with that cycle's own error entry; a failure
\* below the fifth writes only its own entry.  The alert stops nothing: the
\* cycle ends, the monitor is still running with its timer armed, and the
\* next tick begins a cycle.
C30_AlertFromTheFifthFailureOn ==
  [][/\ ErrorLogs("max consecutive failures")' # ErrorLogs("max consecutive failures")
          => /\ failedChecks' = failedChecks + 1
             /\ failedChecks' >= MAX_CONSECUTIVE_FAILURES
     /\ failedChecks' = failedChecks + 1
          => /\ ErrorLogs("check inbox failed")' = ErrorLogs("check inbox failed") + 1
             /\ ErrorLogs("max consecutive failures")'
                  = IF failedChecks' >= MAX_CONSECUTIVE_FAILURES
                      THEN ErrorLogs("max consecutive failures") + 1
                      ELSE ErrorLogs("max consecutive failures")
             /\ isRunning' = isRunning
             /\ intervalId' = intervalId
             /\ (intervalId' /\ ~shouldStop') => PollBegins'
     /\ (failedChecks >= MAX_CONSECUTIVE_FAILURES /\ poll'.pc = "checkInbox"
           /\ poll.pc # "checkInbox")
          => cycles' = cycles + 1]_vars

\* Five cycles in a row have failed, four of them with the failure entry
\* alone and the fifth with the alert as well, and the tick after the alert
\* has begun the sixth cycle.
C30_Witness ==
  /\ failedChecks = MAX_CONSECUTIVE_FAILURES
  /\ consecutiveFailures = MAX_CONSECUTIVE_FAILURES
  /\ ErrorLogs("check inbox failed") = MAX_CONSECUTIVE_FAILURES
  /\ ErrorLogs("max consecutive failures") = 1
  /\ cycles = MAX_CONSECUTIVE_FAILURES + 1
  /\ poll.pc = "checkInbox"
  /\ isRunning /\ intervalId

\* C31: in auto mode a reply whose send failed stays failed, and once a send
\* has failed for an email no step invokes sendMail again for a reply to the
\* same email, in that cycle or a later one.
C31_FailedSendNotRetried ==
  [][~manualConfirmation =>
       \A q \in 1..Len(replies) :
         replies[q].status = "failed"
           => /\ replies'[q].status = "failed"
              /\ \A r \in 1..Len(replies') :
                   replies'[r].originalEmailId = replies[q].originalEmailId
                     => smtp'[r].invoked = smtp[r].invoked]_vars

\* C32: for a sender address without '@' extractDomain yields the empty
\* string, and shouldAutoReply does not refuse the email with the
\* excluded-domain reason, whatever the excludedDomains list holds.
C32_NoAtNeverExcluded ==
  (decision # NoDecision /\ \A i \in 1..Len(probe.from) : probe.from[i] # "@")
    => /\ DomainFilter_extractDomain(probe.from) = <<>>
       /\ decision.reason # "Sender domain is excluded"

\* GET /pending-replies and the pending count of GET /status: the rows of the
\* reply table whose status is 'pending'.
PendingView == {r \in ReplyIds : rows[r] = "pending"}

\* No queue, approve or reject operation is under way: every save that
\* generateReply started has landed, no confirmation and no poll cycle is
\* suspended.
OperationsDone ==
  /\ saving = {}
  /\ \A p \in Procs : conf[p].pc = "idle"
  /\ poll.pc = "idle"
  /\ ~isProcessing

\* C33: after any sequence of queue, approve and reject operations the replies
\* the management API reports as pending are exactly those in AutoResponder's
\* pending set; a reply that was rejected or approved is no longer listed.
C33_PendingViewIsPendingSet ==
  OperationsDone =>
    /\ PendingView = pendingReplies
    /\ \A r \in PendingView : replies[r].status = "pending"

\* The properties of the three sections of a Config.
ConfigFields ==
  {<<s, f>> : s \in {"email"}, f \in {"imapPort", "smtpPort"}}
    \cup {<<s, f>> : s \in {"filters"},
                     f \in {"keywordsEnabled", "keywords", "excludedDomains"}}
    \cup {<<s, f>> : s \in {"autoReply"},
                     f \in {"manualConfirmation", "replyTemplate", "checkInterval"}}

\* The step in which the updateConfig call of slot c stores its snapshot.
Stores(c) == upd[c].pc = "dbRun" /\ upd'[c].pc = "resolved"

C35_PendingSetHoldsPendingReplies ==
  \A r \in pendingReplies : replies[r].status = "pending"

\* C36: in manual-confirmation mode the pending set holds at most one reply
\* per original email id at any time, however many poll cycles run while that
\* email is still unread and its reply unresolved.
C36_OnePendingReplyPerEmail ==
  manualConfirmation =>
    \A q, r \in pendingReplies :
      replies[q].originalEmailId = replies[r].originalEmailId => q = r

\* The fields an update names.
NamedFields(u) == {sf \in ConfigFields : u[sf[1]][sf[2]] # Undefined}

\* The configuration holds every modification of the update.
Contains(config, u) ==
  \A sf \in NamedFields(u) : config[sf[1]][sf[2]] = u[sf[1]][sf[2]]

\* C37: if two updateConfig calls that modify different fields run
\* concurrently and both succeed, no update is lost: the stored configuration,
\* the cached snapshot and the last snapshot delivered to listeners contain
\* both modifications.
C37_NoLostUpdate ==
  \A c, d \in Callers :
    (/\ c # d
     /\ upd[c].pc = "resolved" /\ upd[d].pc = "resolved"
     /\ NamedFields(upd[c].updates) \cap NamedFields(upd[d].updates) = {})
      => \A x \in {c, d} :
           /\ Contains(LoadConfig(dbRow), upd[x].updates)
           /\ Contains(currentConfig[1], upd[x].updates)
           /\ Len(notified) > 0
                => Contains(notified[Len(notified)].config, upd[x].updates)

\* C38: for every interleaving of start() and stop() calls, including
\* overlapping stop() calls followed by a new start(), whenever the monitor is
\* not running (isRunning false) no recurring timer is armed and no poll cycle
\* is in flight or can begin.
C38_NotRunningMeansQuiet ==
  ~isRunning =>
    /\ ~intervalId
    /\ ~isProcessing /\ poll.pc = "idle"
    /\ ~(intervalId /\ PollBegins)

\* C39: a listener that throws while being notified does not stop the
\* notification: in the step that stores the snapshot of a call, every
\* listener, those subscribed after the one that throws included, is invoked
\* once with the new configuration, in subscription order, the snapshot is
\* stored and the call resolves.
C39_ThrowingListenerStopsNothing ==
  [][\A c \in Callers :
       (/\ Stores(c)
        /\ \E j \in 1..Len(listeners) : Throws(listeners[j], upd[c].newConfig[1]))
         => /\ Len(notified') = Len(notified) + Len(listeners)
            /\ \A i \in 1..Len(listeners) :
                 /\ notified'[Len(notified) + i].listener = listeners[i]
                 /\ notified'[Len(notified) + i].config = upd[c].newConfig[1]
                 /\ notified'[Len(notified) + i].call = upd[c].call
            /\ currentConfig' = upd[c].newConfig
            /\ getConfig' = upd[c].newConfig[1]
            /\ LoadConfig(dbRow') = upd[c].newConfig[1]
            /\ upd'[c].pc = "resolved"]_vars

\* The listener that throws was subscribed first; the one subscribed after it
\* has been invoked with the snapshot of a call that resolved.
C39_Witness ==
  /\ listeners = <<1, 2>>
  /\ Len(notified) = 2
  /\ Throws(notified[1].listener, notified[1].config)
  /\ notified[2].listener = 2
  /\ notified[2].config = currentConfig[1]
  /\ currentConfig[1] # DefaultConfig
  /\ \E c \in Callers : upd[c].pc = "resolved" /\ upd[c].call = notified[2].call

\* C40: stop() on a running monitor eventually returns with the monitor
\* stopped, provided the poll cycle in flight (if any) terminates: a call that
\* waits leads to its return with isRunning cleared, no timer armed and no
\* cycle in flight, and a call that finds no cycle in flight returns stopped in
\* the same step.  stop() on a monitor that is not running returns and changes
\* nothing.
C40_StopReturns ==
  /\ (stopPc = "waiting")
       ~> (stopPc = "idle" /\ ~isRunning /\ ~intervalId /\ ~isProcessing)
  /\ (stopPc = "returned") ~> (stopPc = "idle")
  /\ [][/\ (isRunning /\ stopPc = "idle" /\ stopPc' = "idle" /\ shouldStop'
              /\ ~shouldStop)
            => (~isRunning' /\ ~intervalId' /\ ~isProcessing')
        /\ (stopPc # "returned" /\ stopPc' = "returned") =>
             /\ stopPc = "idle" /\ ~isRunning
             /\ UNCHANGED <<configVars, repoVars, sinkVars, guardVars, abandoned,
                            mailboxVars, responderVars, logs, conf, historyVars,
                            isRunning, isProcessing, shouldStop, intervalId,
                            consecutiveFailures, poll, cycles>>
        /\ (stopPc = "returned" /\ stopPc' # "returned") =>
             /\ stopPc' = "idle"
             /\ UNCHANGED <<isRunning, isProcessing, shouldStop, intervalId,
                            consecutiveFailures, poll, cycles, logs>>]_vars

\* A stop() that waited for a cycle has returned: the monitor is stopped and
\* the 'stopped' entry is logged.
C40_Witness ==
  /\ stopPc = "idle"
  /\ ~isRunning /\ ~intervalId /\ ~isProcessing
  /\ shouldStop
  /\ markCalls[1] = 1
  /\ abandoned = {2}
  /\ \E l \in BagToSet(logs) : l.recipient = "stopped"
====
